---- MODULE Spec2Model ----
(***************************************************************************)
(* Model of the competitor-analysis pipeline and of the campaign strategy  *)
(* builder of the marketing-campaign assistant.                           *)
(*                                                                         *)
(* Strings are TLA+ strings; TLC evaluates Len, Head, Tail, SubSeq and \o  *)
(* on them, so the text processing is modelled character by character.    *)
(***************************************************************************)
EXTENDS Integers, Sequences, FiniteSets, TLC

VARIABLES
    kwPc, kwText, kwOut,           \* extractKeywords: position, input text, ranked output
    mockPc, mockArgs, mockOut,     \* generateIntelligentMock: position, arguments, results
    recPc, recInsights, recOut,    \* generateRecommendations: position, insights, result
    domPc, domDoc, domOut,         \* extractInsights: position, document, analysis
    revision,                      \* analyzeCompetitor: which revision of the handler runs
    scrapingKey,                   \* SCRAPINGBEE_API_KEY
    body,                          \* req.body
    pc,                            \* where the handler is
    urlsToAnalyze,                 \* the resolved URL list
    insights,                      \* the insights pushed so far
    requests,                      \* the URLs a scrape request was sent for, in order
    response,                      \* what res.json sent, or Null
    campaignPc,                    \* createCampaign: where the handler is
    req,                           \* the request: body.text and file, each optional
    promptText, inputType,         \* createCampaign's locals
    fileBuffer,                    \* whether a file buffer was read
    fullPromptText, isPDF,         \* analyzeWithGemini's locals
    completion,                    \* what the AI completion call did
    strategy,                      \* what analyzeWithGemini returned
    campaignRes,                   \* what createCampaign sent
    campaigns,                     \* the Campaign collection, in order of creation
    saving,                        \* addAgentResult requests between findById and save
    storeRes,                      \* the last response of the campaign controller
    igPc,                          \* postToInstagram: where the handler is
    igReq,                         \* its request body and whether a token is configured
    containerCreated,              \* the container-creation request succeeded
    attempt,                       \* waitForContainerReady's loop variable
    statusChecks, delays,          \* status requests sent and delays waited so far
    lastStatus,                    \* what the last status check reported
    errorAt,                       \* the first attempt that reported ERROR, or 0
    publishes,                     \* media_publish requests sent
    igRes,                         \* what postToInstagram sent
    parsePc, parseText, parseOut,   \* parsePromptToStrategy: its argument and result
    portIn, serverOut, browserOut,   \* one analysis run by the server handler and by its browser port
    authReq, authPc, authRes,   \* one request through a route: the request, where it is, what happened to it
    otps, otpFlight, otpRes   \* the OTP collection, the login and verification requests under way, the responses sent

vars ==
    <<kwPc, kwText, kwOut, mockPc, mockArgs, mockOut, recPc, recInsights, recOut,
      domPc, domDoc, domOut,
      revision, scrapingKey, body, pc, urlsToAnalyze, insights, requests, response,
      campaignPc, req, promptText, inputType, fileBuffer, fullPromptText, isPDF,
      completion, strategy, campaignRes,
      campaigns, saving, storeRes,
      igPc, igReq, containerCreated, attempt, statusChecks, delays, lastStatus, errorAt,
      publishes, igRes,
      parsePc, parseText, parseOut,
      portIn, serverOut, browserOut,
      authReq, authPc, authRes,
      otps, otpFlight, otpRes>>

\* a step of component c leaves the variables of all others alone
Only(c) ==
    /\ IF c = "kw" THEN TRUE ELSE UNCHANGED <<kwPc, kwText, kwOut>>
    /\ IF c = "mock" THEN TRUE ELSE UNCHANGED <<mockPc, mockArgs, mockOut>>
    /\ IF c = "rec" THEN TRUE ELSE UNCHANGED <<recPc, recInsights, recOut>>
    /\ IF c = "dom" THEN TRUE ELSE UNCHANGED <<domPc, domDoc, domOut>>
    /\ IF c = "ac" THEN TRUE
       ELSE UNCHANGED <<revision, scrapingKey, body, pc, urlsToAnalyze, insights,
                        requests, response>>
    /\ IF c = "campaign" THEN TRUE
       ELSE UNCHANGED <<campaignPc, req, promptText, inputType, fileBuffer,
                        fullPromptText, isPDF, completion, strategy, campaignRes>>
    /\ IF c = "store" THEN TRUE ELSE UNCHANGED <<campaigns, saving, storeRes>>
    /\ IF c = "ig" THEN TRUE
       ELSE UNCHANGED <<igPc, igReq, containerCreated, attempt, statusChecks, delays,
                        lastStatus, errorAt, publishes, igRes>>
    /\ IF c = "parse" THEN TRUE ELSE UNCHANGED <<parsePc, parseText, parseOut>>
    /\ IF c = "port" THEN TRUE ELSE UNCHANGED <<portIn, serverOut, browserOut>>
    /\ IF c = "auth" THEN TRUE ELSE UNCHANGED <<authReq, authPc, authRes>>
    /\ IF c = "otp" THEN TRUE ELSE UNCHANGED <<otps, otpFlight, otpRes>>

\* a component that takes no part in a specification stays as constructed
OthersOff(c) ==
    /\ IF c = "kw" THEN TRUE ELSE kwPc = "off" /\ kwText = "" /\ kwOut = <<>>
    /\ IF c = "mock" THEN TRUE ELSE mockPc = "off" /\ mockArgs = <<>> /\ mockOut = <<>>
    /\ IF c = "rec" THEN TRUE ELSE recPc = "off" /\ recInsights = <<>> /\ recOut = <<>>
    /\ IF c = "dom" THEN TRUE ELSE domPc = "off" /\ domDoc = <<>> /\ domOut = <<>>
    /\ IF c = "ac" THEN TRUE
       ELSE /\ revision = "off" /\ scrapingKey = "" /\ body = <<>> /\ pc = "off"
            /\ urlsToAnalyze = <<>> /\ insights = <<>> /\ requests = <<>>
            /\ response = <<>>
    /\ IF c = "campaign" THEN TRUE
       ELSE /\ campaignPc = "off" /\ req = <<>> /\ inputType = "text"
            /\ promptText = [t |-> "string", v |-> <<"">>]
            /\ fileBuffer = FALSE /\ fullPromptText = "" /\ isPDF = FALSE
            /\ completion = <<>> /\ strategy = <<>> /\ campaignRes = <<>>
    /\ IF c = "store" THEN TRUE
       ELSE campaigns = <<>> /\ saving = <<>> /\ storeRes = <<>>
    /\ IF c = "ig" THEN TRUE
       ELSE /\ igPc = "off" /\ igReq = <<>> /\ containerCreated = FALSE /\ attempt = 0
            /\ statusChecks = 0 /\ delays = 0 /\ lastStatus = "" /\ errorAt = 0
            /\ publishes = 0 /\ igRes = <<>>
    /\ IF c = "parse" THEN TRUE ELSE parsePc = "off" /\ parseText = "" /\ parseOut = <<>>
    /\ IF c = "port" THEN TRUE ELSE portIn = <<>> /\ serverOut = <<>> /\ browserOut = <<>>
    /\ IF c = "auth" THEN TRUE ELSE authReq = <<>> /\ authPc = "idle" /\ authRes = <<>>
    /\ IF c = "otp" THEN TRUE ELSE otps = <<>> /\ otpFlight = <<>> /\ otpRes = <<>>

(***************************************************************************)
(* Characters and strings (JavaScript String methods used by the source)  *)
(***************************************************************************)
UpperLetters == "ABCDEFGHIJKLMNOPQRSTUVWXYZ"
LowerLetters == "abcdefghijklmnopqrstuvwxyz"

Min(a, b) == IF a < b THEN a ELSE b

\* the characters i..j of s that exist (i >= 1), as String.prototype.substring
Sub(s, i, j) == IF i > Len(s) \/ j < i THEN "" ELSE SubSeq(s, i, Min(j, Len(s)))

\* String.prototype.charAt
CharAt(s, i) == Sub(s, i, i)

CharIn(c, s) == \E i \in 1..Len(s) : CharAt(s, i) = c

IndexIn(c, s) == CHOOSE i \in 1..Len(s) : CharAt(s, i) = c

IsDigit(c) == CharIn(c, "0123456789")

\* the class \s of the regular expressions, over the characters the inputs use
IsSpace(c) == c \in {" ", "\t", "\n", "\r", "\f"}

\* String.prototype.toLowerCase
RECURSIVE ToLowerCase(_)
ToLowerCase(s) ==
    IF s = "" THEN ""
    ELSE (IF CharIn(Head(s), UpperLetters)
          THEN CharAt(LowerLetters, IndexIn(Head(s), UpperLetters))
          ELSE Head(s)) \o ToLowerCase(Tail(s))

RECURSIVE TrimStart(_)
TrimStart(s) ==
    IF s = "" THEN ""
    ELSE IF IsSpace(Head(s)) THEN TrimStart(Tail(s)) ELSE s

RECURSIVE TrimEnd(_)
TrimEnd(s) ==
    IF s = "" THEN ""
    ELSE IF IsSpace(CharAt(s, Len(s))) THEN TrimEnd(SubSeq(s, 1, Len(s) - 1)) ELSE s

\* String.prototype.trim
Trim(s) == TrimEnd(TrimStart(s))

\* String.prototype.slice(0, n) and Array.prototype.slice(0, n)
Slice0(s, n) == SubSeq(s, 1, Min(Len(s), n))

\* s.split(/\s+/): the pieces between maximal runs of white space; a run at
\* either end leaves an empty piece there, and "" splits into <<"">>
RECURSIVE SplitWsFrom(_, _, _, _)
SplitWsFrom(s, acc, cur, inRun) ==
    IF s = "" THEN Append(acc, cur)
    ELSE IF IsSpace(Head(s))
         THEN IF inRun THEN SplitWsFrom(Tail(s), acc, cur, TRUE)
              ELSE SplitWsFrom(Tail(s), Append(acc, cur), "", TRUE)
         ELSE SplitWsFrom(Tail(s), acc, cur \o Head(s), FALSE)

SplitWs(s) == SplitWsFrom(s, <<>>, "", FALSE)

\* Array.prototype.join
RECURSIVE Join(_, _)
Join(xs, sep) ==
    IF xs = <<>> THEN ""
    ELSE IF Len(xs) = 1 THEN xs[1]
    ELSE xs[1] \o sep \o Join(Tail(xs), sep)

\* a < b as numbers, for canonical numerals (no leading zero); DigitsLess
\* is x < y for two strings of decimal digits of the same length
NumeralLess(a, b) ==
    LET RECURSIVE DigitsLess(_, _)
        DigitsLess(x, y) ==
            IF x = "" THEN FALSE
            ELSE IF Head(x) # Head(y)
            THEN IndexIn(Head(x), "0123456789") < IndexIn(Head(y), "0123456789")
            ELSE DigitsLess(Tail(x), Tail(y))
    IN Len(a) < Len(b) \/ (Len(a) = Len(b) /\ DigitsLess(a, b))

\* all orderings of a sequence
RECURSIVE Orderings(_)
Orderings(xs) ==
    IF xs = <<>> THEN {<<>>}
    ELSE UNION {{<<xs[i]>> \o p :
                    p \in Orderings(SubSeq(xs, 1, i - 1) \o SubSeq(xs, i + 1, Len(xs)))} :
                i \in 1..Len(xs)}

(***************************************************************************)
(* extractKeywords                                                         *)
(***************************************************************************)
stopWords ==
    {"the", "be", "to", "of", "and", "a", "in", "that", "have", "i",
     "it", "for", "not", "on", "with", "he", "as", "you", "do", "at",
     "this", "but", "his", "by", "from", "they", "we", "say", "her", "she",
     "or", "an", "will", "my", "one", "all", "would", "there", "their"}

MinWordLength == 3

\* .replace(/[^a-z0-9\s]/g, ' ')
RECURSIVE ReplaceNonAlnum(_)
ReplaceNonAlnum(s) ==
    IF s = "" THEN ""
    ELSE (IF CharIn(Head(s), LowerLetters) \/ IsDigit(Head(s)) \/ IsSpace(Head(s))
          THEN Head(s) ELSE " ") \o ReplaceNonAlnum(Tail(s))

\* KeepWord without the stop-word test
KeepWordAnyLong(word) == Len(word) > MinWordLength

\* .filter(word => word.length > 3 && !stopWords.has(word))
KeepWord(word) == Len(word) > MinWordLength /\ word \notin stopWords

\* the distinct elements of a sequence, each at its first place: the own keys
\* of wordCount in the order they were first assigned, the order of a Set
RECURSIVE FirstSeen(_)
FirstSeen(ws) ==
    IF ws = <<>> THEN <<>>
    ELSE <<Head(ws)>> \o FirstSeen(SelectSeq(Tail(ws), LAMBDA w : w # Head(ws)))

\* a key that is an array index, a canonical numeral up to 2^32 - 2:
\* enumerated before the other keys, ascending
IsArrayIndex(w) ==
    /\ w # ""
    /\ \A i \in 1..Len(w) : IsDigit(CharAt(w, i))
    /\ (Len(w) > 1 => Head(w) # "0")
    /\ ~NumeralLess("4294967294", w)

\* Object.entries(wordCount): array-index keys ascending, then the rest in
\* insertion order; nan marks a value that is not a number.  wordCount = {}
\* inherits from Object.prototype: for a word that names an inherited
\* property, (wordCount[word] || 0) + 1 is a string, not a count, and
\* constructor is the only inherited name spelt with a-z and 0-9 alone.
Entries(ws) ==
    LET keys == FirstSeen(ws)
        RECURSIVE AscendingIndexKeys(_)
        AscendingIndexKeys(ks) ==
            IF ks = <<>> THEN <<>>
            ELSE LET least == CHOOSE k \in {ks[i] : i \in 1..Len(ks)} :
                                 \A j \in 1..Len(ks) : ~NumeralLess(ks[j], k)
                 IN <<least>> \o AscendingIndexKeys(SelectSeq(ks, LAMBDA k : k # least))
        ordered == AscendingIndexKeys(SelectSeq(keys, IsArrayIndex))
                      \o SelectSeq(keys, LAMBDA k : ~IsArrayIndex(k))
    IN [i \in 1..Len(ordered) |->
           [word |-> ordered[i],
            count |-> Cardinality({j \in 1..Len(ws) : ws[j] = ordered[i]}),
            nan |-> ordered[i] = "constructor"]]

\* the comparator (a, b) => b[1] - a[1]; sort reads a NaN result as +0
Compare(a, b) == IF a.nan \/ b.nan THEN 0 ELSE b.count - a.count

\* Array.prototype.sort is stable: an entry goes after every entry that does
\* not compare greater than it
RECURSIVE StableSort(_)
StableSort(es) ==
    IF es = <<>> THEN <<>>
    ELSE LET rest == StableSort(SubSeq(es, 1, Len(es) - 1))
             e == es[Len(es)]
             pos == Cardinality({i \in 1..Len(rest) :
                                    \A j \in 1..i : Compare(rest[j], e) <= 0})
         IN SubSeq(rest, 1, pos) \o <<e>> \o SubSeq(rest, pos + 1, Len(rest))

\* the orders sort can leave: the stable order when the comparator is a
\* consistent ordering of es (equality is transitive), and an
\* implementation-defined order when it is not
SortOutcomes(es) ==
    IF \A i, j, k \in 1..Len(es) :
          (Compare(es[i], es[j]) = 0 /\ Compare(es[j], es[k]) = 0)
              => Compare(es[i], es[k]) = 0
    THEN {StableSort(es)}
    ELSE Orderings(es)

\* the sequences extractKeywords(text) can return
extractKeywords(text) ==
    LET words == SelectSeq(SplitWs(ReplaceNonAlnum(ToLowerCase(text))), KeepWord)
    IN {[i \in 1..Len(s) |-> s[i].word] : s \in SortOutcomes(Entries(words))}

(***************************************************************************)
(* JavaScript values                                                       *)
(*                                                                         *)
(* An object is a record; a property the object does not have is a field   *)
(* the record does not have.  null is the record Null.  TLC compares only  *)
(* values of one kind, so a string that stands where an object may stand   *)
(* (the sentinel in the recommendations list) is the record                *)
(* [string |-> s].                                                         *)
(***************************************************************************)
Null == [null |-> TRUE]

IsNull(v) == DOMAIN v = {"null"}

\* obj.field || default, for a field that is absent or holds a list or record
Get(obj, field, default) == IF field \in DOMAIN obj THEN obj[field] ELSE default

\* Math.round(num / den) for num >= 0, den > 0: halves round up
Round(num, den) == (2 * num + den) \div (2 * den)

\* the spread of every list into one array (a collection that took the
\* first list only is kept for comparison)
FlattenFirst(xss) == IF xss = <<>> THEN <<>> ELSE Head(xss)

RECURSIVE Flatten(_)
Flatten(xss) == IF xss = <<>> THEN <<>> ELSE Head(xss) \o Flatten(Tail(xss))

RECURSIVE Sum(_)
Sum(xs) == IF xs = <<>> THEN 0 ELSE Head(xs) + Sum(Tail(xs))

(***************************************************************************)
(* new URL(url).hostname                                                   *)
(***************************************************************************)
\* the index of the first character of s that is in chars, or Len(s) + 1
RECURSIVE FirstOf(_, _, _)
FirstOf(s, chars, i) ==
    IF i > Len(s) THEN i
    ELSE IF CharIn(CharAt(s, i), chars) THEN i
    ELSE FirstOf(s, chars, i + 1)

RECURSIVE DropSlashes(_)
DropSlashes(s) ==
    IF s # "" /\ Head(s) \in {"/", "\\"} THEN DropSlashes(Tail(s)) ELSE s

\* the scheme of a URL string: letters before the first ":", lower-cased, or ""
Scheme(url) ==
    LET u == Trim(url)
        c == FirstOf(u, ":", 1)
    IN IF c > Len(u) \/ c = 1 THEN ""
       ELSE IF \A i \in 1..(c - 1) :
                   CharIn(CharAt(u, i), LowerLetters) \/ CharIn(CharAt(u, i), UpperLetters)
            THEN ToLowerCase(Sub(u, 1, c - 1))
            ELSE ""

\* new URL(url).hostname for a URL string with a scheme (no credentials in
\* the inputs)
hostname(url) ==
    LET u == Trim(url)
        c == FirstOf(u, ":", 1)
        rest == Sub(u, c + 1, Len(u))
        auth == IF Scheme(url) \in {"http", "https", "ws", "wss", "ftp"} THEN DropSlashes(rest)
                ELSE IF Sub(rest, 1, 2) = "//" THEN Sub(rest, 3, Len(rest))
                ELSE ""
    IN ToLowerCase(Sub(auth, 1, FirstOf(auth, "/\\?#:", 1) - 1))

\* new URL(url) throws a TypeError unless the string has a scheme and, for a
\* special scheme, a host
UrlParses(url) ==
    /\ Scheme(url) # ""
    /\ (Scheme(url) \in {"http", "https", "ws", "wss", "ftp"} => hostname(url) # "")

(***************************************************************************)
(* generateIntelligentMock                                                 *)
(***************************************************************************)
MetricCap == 98
SeedRange == 30

metrics ==
    << [label |-> "Visual Appeal", base |-> 70],
       [label |-> "Market Authority", base |-> 60],
       [label |-> "Social Engagement", base |-> 50] >>

\* the metric without the cap
MetricValueUncapped(base, seed) == base + (seed % SeedRange)

\* Math.min(98, m.base + (seed % 30))
MetricValue(base, seed) == Min(MetricCap, base + (seed % SeedRange))

\* defined when new URL(url) does not throw
generateIntelligentMock(url, brandContext, industry) ==
    LET domain == hostname(url)
        seed == Len(domain) + Len(brandContext)
    IN [keywords |-> <<"premium", "innovation", "reliability", "enterprise",
                      "cutting-edge", "solution", "experience">>,
        valuePropositions |->
            <<"Leading provider in " \o (IF industry = "" THEN "the market" ELSE industry),
              "Focus on user experience and simplicity",
              "Advanced features for professionals">>,
        strengths |-> <<"Strong domain authority", "Clear call-to-actions",
                       "High-quality visual assets", "Mobile-optimized experience">>,
        weaknesses |-> <<"Dense technical jargon", "Slow pageload performance",
                        "Complex navigation structure">>,
        metrics |-> [i \in 1..Len(metrics) |->
                        [label |-> metrics[i].label,
                         value |-> MetricValue(metrics[i].base, seed)]],
        designElements |->
            [hasVideo |-> seed % 2 = 0,
             hasImages |-> 5 + (seed % 10),
             hasCTA |-> 3 + (seed % 5),
             wordCount |-> 500 + (seed % 1000)]]

(***************************************************************************)
(* generateRecommendations                                                 *)
(***************************************************************************)
Sentinel == [string |-> "Unable to generate recommendations due to scraping errors"]

\* i.error is truthy
HasError(i) == "error" \in DOMAIN i /\ i.error # ""

\* insights.filter(i => i.analysis && !i.error)
IsValidInsight(i) == ~IsNull(i.analysis) /\ ~HasError(i)

CtaThreshold == 5
WordCountThreshold == 500

\* the video gate with >= in place of >
VideoGateAtLeastHalf(totalHasVideo, validCount) == 2 * totalHasVideo >= validCount

\* totalHasVideo > validInsights.length / 2
VideoGate(totalHasVideo, validCount) == 2 * totalHasVideo > validCount

\* no valid insight counts as none only when the list itself is empty
NoValidInsightsIfEmpty(insightList) == insightList = <<>>

\* validInsights.length === 0
NoValidInsights(insightList) == SelectSeq(insightList, IsValidInsight) = <<>>

generateRecommendations(insightList, brandContext) ==
    LET validInsights == SelectSeq(insightList, IsValidInsight)
        n == Len(validInsights)
        \* designElements?.hasVideo
        HasVideo(a) ==
            "designElements" \in DOMAIN a /\ Get(a.designElements, "hasVideo", FALSE)
        \* designElements?.hasCTA || 0
        CtaCount(a) ==
            IF "designElements" \in DOMAIN a THEN Get(a.designElements, "hasCTA", 0) ELSE 0
        allKeywords == Flatten([i \in 1..n |-> Get(validInsights[i].analysis, "keywords", <<>>)])
        allValueProps ==
            Flatten([i \in 1..n |-> Get(validInsights[i].analysis, "valuePropositions", <<>>)])
        totalHasVideo == Cardinality({i \in 1..n : HasVideo(validInsights[i].analysis)})
        totalCTAs == Sum([i \in 1..n |-> CtaCount(validInsights[i].analysis)])
        topKeywords == Slice0(FirstSeen(allKeywords), 10)
        withTestimonials ==
            Cardinality({i \in 1..n : Len(Get(validInsights[i].analysis, "testimonials", <<>>)) > 0})
        totalWords == Sum([i \in 1..n |-> Get(validInsights[i].analysis, "wordCount", 0)])
    IN IF NoValidInsights(insightList) THEN <<Sentinel>>
       ELSE
         (IF Len(topKeywords) > 0
          THEN <<[category |-> "Content Strategy",
                  title |-> "Leverage Competitor Keywords",
                  insight |-> "Your competitors are focusing on: "
                                 \o Join(Slice0(topKeywords, 5), ", "),
                  action |-> "Consider incorporating these keywords into your content strategy to improve SEO and resonate with your target audience.",
                  priority |-> "high"]>>
          ELSE <<>>)
         \o
         (IF VideoGate(totalHasVideo, n)
          THEN <<[category |-> "Media Strategy",
                  title |-> "Video Content Opportunity",
                  insight |-> ToString(Round(totalHasVideo * 100, n))
                                 \o "% of analyzed competitors use video content",
                  action |-> "Consider adding product demos, explainer videos, or customer testimonials to increase engagement.",
                  priority |-> "medium"]>>
          ELSE <<>>)
         \o
         (IF Len(allValueProps) > 0
          THEN <<[category |-> "Messaging",
                  title |-> "Strengthen Your Value Proposition",
                  insight |-> "Competitors are emphasizing clear benefits and outcomes",
                  action |-> "Ensure your messaging clearly communicates unique value. Consider A/B testing different value propositions.",
                  priority |-> "high"]>>
          ELSE <<>>)
         \o
         (IF totalCTAs > CtaThreshold * n
          THEN <<[category |-> "Conversion Optimization",
                  title |-> "Multiple Call-to-Actions",
                  insight |-> "Competitors average " \o ToString(Round(totalCTAs, n))
                                 \o " CTAs per page",
                  action |-> "Strategically place CTAs throughout your page to guide users toward conversion.",
                  priority |-> "medium"]>>
          ELSE <<>>)
         \o
         (IF withTestimonials > 0
          THEN <<[category |-> "Trust Building",
                  title |-> "Add Social Proof",
                  insight |-> ToString(Round(withTestimonials * 100, n))
                                 \o "% of competitors display customer testimonials",
                  action |-> "Showcase customer reviews, case studies, or trust badges to build credibility.",
                  priority |-> "high"]>>
          ELSE <<>>)
         \o
         (IF totalWords > WordCountThreshold * n
          THEN <<[category |-> "Content Quality",
                  title |-> "Comprehensive Content",
                  insight |-> "Competitors provide detailed content (avg "
                                 \o ToString(Round(totalWords, n)) \o " words)",
                  action |-> "Create in-depth, valuable content that addresses user pain points and questions.",
                  priority |-> "medium"]>>
          ELSE <<>>)

(***************************************************************************)
(* extractInsights                                                         *)
(*                                                                         *)
(* A parsed document is the sequence of its elements in document order.    *)
(* An element is [tag, class, role, name, content, src, style, text]: text *)
(* is the text content of the element with that of its descendants, and an *)
(* attribute the element does not carry is "".  title and meta elements    *)
(* are in the head, every other element is a descendant of body.  Text     *)
(* that is in no element is not part of the model: no selector reads it.   *)
(***************************************************************************)
\* s.includes(sub), and the attribute selector [attr*="sub"]
Contains(s, sub) ==
    \E i \in 1..(Len(s) - Len(sub) + 1) : Sub(s, i, i + Len(sub) - 1) = sub

\* the class selector .name: name is one of the white-space separated classes
HasClass(el, name) ==
    \E i \in 1..Len(SplitWs(el.class)) : SplitWs(el.class)[i] = name

\* the selectors extractInsights, extractColors and analyzeLayout query,
\* and whether element el is matched by selector sel
Selectors ==
    {"title", "meta[name=\"description\"]", "h1, h2, h3", "p, article, main", "body *",
     "button, .cta, .hero, .value-prop, [class*=\"benefit\"]",
     "[class*=\"testimonial\"], [class*=\"review\"], [class*=\"feedback\"]",
     "video, iframe[src*=\"youtube\"], iframe[src*=\"vimeo\"]", "img",
     "button, [class*=\"cta\"]", "[style*=\"color\"], [style*=\"background\"]",
     "header, [role=\"banner\"]", "nav, [role=\"navigation\"]",
     "footer, [role=\"contentinfo\"]", "aside, .sidebar", "section, [role=\"region\"]"}

Matches(sel, el) ==
    CASE sel = "title" -> el.tag = "title"
      [] sel = "meta[name=\"description\"]" -> el.tag = "meta" /\ el.name = "description"
      [] sel = "h1, h2, h3" -> el.tag \in {"h1", "h2", "h3"}
      [] sel = "p, article, main" -> el.tag \in {"p", "article", "main"}
      [] sel = "body *" -> el.tag \notin {"title", "meta"}
      [] sel = "button, .cta, .hero, .value-prop, [class*=\"benefit\"]" ->
            \/ el.tag = "button"
            \/ HasClass(el, "cta") \/ HasClass(el, "hero") \/ HasClass(el, "value-prop")
            \/ Contains(el.class, "benefit")
      [] sel = "[class*=\"testimonial\"], [class*=\"review\"], [class*=\"feedback\"]" ->
            Contains(el.class, "testimonial") \/ Contains(el.class, "review")
                \/ Contains(el.class, "feedback")
      [] sel = "video, iframe[src*=\"youtube\"], iframe[src*=\"vimeo\"]" ->
            \/ el.tag = "video"
            \/ el.tag = "iframe" /\ (Contains(el.src, "youtube") \/ Contains(el.src, "vimeo"))
      [] sel = "img" -> el.tag = "img"
      [] sel = "button, [class*=\"cta\"]" -> el.tag = "button" \/ Contains(el.class, "cta")
      [] sel = "[style*=\"color\"], [style*=\"background\"]" ->
            Contains(el.style, "color") \/ Contains(el.style, "background")
      [] sel = "header, [role=\"banner\"]" -> el.tag = "header" \/ el.role = "banner"
      [] sel = "nav, [role=\"navigation\"]" -> el.tag = "nav" \/ el.role = "navigation"
      [] sel = "footer, [role=\"contentinfo\"]" ->
            el.tag = "footer" \/ el.role = "contentinfo"
      [] sel = "aside, .sidebar" -> el.tag = "aside" \/ HasClass(el, "sidebar")
      [] sel = "section, [role=\"region\"]" -> el.tag = "section" \/ el.role = "region"

\* $(sel), and $('body').find('*') for "body *": the matched elements in
\* document order
Select(doc, sel) == SelectSeq(doc, LAMBDA el : Matches(sel, el))

\* the texts of a selection, trimmed, in document order
TrimmedTexts(els) == [i \in 1..Len(els) |-> Trim(els[i].text)]

\* text.match(/\$\d+|\d+\s*(dollars|USD|EUR|price|cost)/i)
MatchesPrice(text) ==
    \E i \in 1..Len(text) :
        \/ CharAt(text, i) = "$" /\ i < Len(text) /\ IsDigit(CharAt(text, i + 1))
        \/ /\ IsDigit(CharAt(text, i))
           /\ \E j \in (i + 1)..Len(text) :
                 /\ \A k \in (i + 1)..(j - 1) : IsSpace(CharAt(text, k))
                 /\ \E w \in {"dollars", "usd", "eur", "price", "cost"} : ToLowerCase(Sub(text, j, j + Len(w) - 1)) = w

\* style.match(/#[0-9a-f]{3,6}|rgb\([^)]+\)|rgba\([^)]+\)/gi) on each styled
\* element, the matches without repetition, the first ten.  HexRun is how
\* many of the characters of s from place i on are hexadecimal digits, up
\* to max; FunctionalColorLength the length of the match of rgb\([^)]+\) or
\* rgba\([^)]+\) at place i, or 0; ColorMatches the matches from place i on.
extractColors(doc) ==
    LET styled == Select(doc, "[style*=\"color\"], [style*=\"background\"]")
        RECURSIVE HexRun(_, _, _)
        HexRun(s, i, max) ==
            IF max = 0 \/ i > Len(s) \/ ~CharIn(CharAt(s, i), "0123456789abcdefABCDEF") THEN 0
            ELSE 1 + HexRun(s, i + 1, max - 1)
        FunctionalColorLength(s, i) ==
            LET open == IF ToLowerCase(Sub(s, i, i + 3)) = "rgb(" THEN i + 3
                        ELSE IF ToLowerCase(Sub(s, i, i + 4)) = "rgba(" THEN i + 4
                        ELSE 0
                close == FirstOf(s, ")", open + 1)
            IN IF open = 0 \/ close > Len(s) \/ close = open + 1 THEN 0 ELSE close - i + 1
        RECURSIVE ColorMatches(_, _)
        ColorMatches(s, i) ==
            IF i > Len(s) THEN <<>>
            ELSE LET hex == IF CharAt(s, i) = "#" /\ HexRun(s, i + 1, 6) >= 3
                            THEN 1 + HexRun(s, i + 1, 6) ELSE 0
                     len == IF hex > 0 THEN hex ELSE FunctionalColorLength(s, i)
                 IN IF len > 0 THEN <<Sub(s, i, i + len - 1)>> \o ColorMatches(s, i + len)
                    ELSE ColorMatches(s, i + 1)
    IN Slice0(FirstSeen(Flatten([i \in 1..Len(styled) |-> ColorMatches(styled[i].style, 1)])), 10)

analyzeLayout(doc) ==
    [hasHeader |-> Len(Select(doc, "header, [role=\"banner\"]")) > 0,
     hasNav |-> Len(Select(doc, "nav, [role=\"navigation\"]")) > 0,
     hasFooter |-> Len(Select(doc, "footer, [role=\"contentinfo\"]")) > 0,
     hasSidebar |-> Len(Select(doc, "aside, .sidebar")) > 0,
     sections |-> Len(Select(doc, "section, [role=\"region\"]"))]

\* the analyses extractInsights($, brandContext) can return (one, unless the
\* order of the keywords is implementation-defined)
extractInsights(doc, brandContext) ==
    LET title == Trim(Join([i \in 1..Len(Select(doc, "title")) |->
                               Select(doc, "title")[i].text], ""))
        metas == Select(doc, "meta[name=\"description\"]")
        metaDescription == IF metas = <<>> THEN "" ELSE metas[1].content
        headings == SelectSeq(TrimmedTexts(Select(doc, "h1, h2, h3")),
                              LAMBDA t : Len(t) > 3 /\ Len(t) < 200)
        contents == SelectSeq(TrimmedTexts(Select(doc, "p, article, main")), LAMBDA t : t # "")
        mainText == Trim(Slice0(Join([i \in 1..Len(contents) |-> contents[i] \o " "], ""),
                                2000))
        priced == SelectSeq(Select(doc, "body *"), LAMBDA el : MatchesPrice(el.text))
        pricingIndicators ==
            FirstSeen(SelectSeq([i \in 1..Len(priced) |-> Slice0(Trim(priced[i].text), 100)],
                             LAMBDA t : t # ""))
        valueProps == SelectSeq(TrimmedTexts(Select(doc, "button, .cta, .hero, .value-prop, [class*=\"benefit\"]")),
                                LAMBDA t : Len(t) > 10 /\ Len(t) < 150)
        testimonials == SelectSeq(TrimmedTexts(Select(doc, "[class*=\"testimonial\"], [class*=\"review\"], [class*=\"feedback\"]")),
                                  LAMBDA t : Len(t) > 20 /\ Len(t) < 300)
        designElements ==
            [hasVideo |-> Len(Select(doc, "video, iframe[src*=\"youtube\"], iframe[src*=\"vimeo\"]")) > 0,
             hasImages |-> Len(Select(doc, "img")),
             hasCTA |-> Len(Select(doc, "button, [class*=\"cta\"]")),
             colorScheme |-> extractColors(doc),
             layout |-> analyzeLayout(doc)]
    IN {[title |-> title,
         metaDescription |-> metaDescription,
         headings |-> Slice0(headings, 10),
         keywords |-> Slice0(keywords, 20),
         valuePropositions |-> Slice0(valueProps, 5),
         pricingInfo |-> Slice0(pricingIndicators, 5),
         testimonials |-> Slice0(testimonials, 3),
         designElements |-> designElements,
         contentLength |-> Len(mainText),
         wordCount |-> Len(SplitWs(mainText))] :
           keywords \in extractKeywords(mainText \o " " \o Join(headings, " "))}

(***************************************************************************)
(* Specification SpecKw: extractKeywords applied to bounded texts          *)
(***************************************************************************)
MaxWords == 3

\* the text is up to MaxWords chunks joined by blanks
InitKw ==
    /\ kwPc = "input"
    /\ LET RECURSIVE TextsOf(_, _)
           TextsOf(chunks, n) ==
               IF n = 0 THEN {""}
               ELSE LET shorter == TextsOf(chunks, n - 1)
                    IN shorter \cup {IF t = "" THEN c ELSE t \o " " \o c :
                                        t \in shorter, c \in chunks}
       IN kwText \in TextsOf({"Data", "data,", "that", "2024", "1999", "eco-pack",
                           "constructor", "the", "a1b2 ", "0123"}, MaxWords)
    /\ kwOut = <<>>
    /\ OthersOff("kw")

KwExtract ==
    /\ kwPc = "input"
    /\ kwOut' \in extractKeywords(kwText)
    /\ kwPc' = "done"
    /\ UNCHANGED <<kwText>>
    /\ Only("kw")

SpecKw == InitKw /\ [][KwExtract]_vars

\* C10: every token extractKeywords returns is longer than 3 characters, is no
\* stop word, is spelt with a-z and 0-9 only, and occurs once in the result
KeywordTokensClean ==
    kwPc = "done" =>
        \A i \in 1..Len(kwOut) :
            /\ Len(kwOut[i]) > 3
            /\ kwOut[i] \notin stopWords
            /\ \A k \in 1..Len(kwOut[i]) :
                   CharIn(CharAt(kwOut[i], k), LowerLetters) \/ IsDigit(CharAt(kwOut[i], k))
            /\ \A j \in 1..Len(kwOut) : kwOut[j] = kwOut[i] => j = i

\* a text with a repeated word in two spellings, a stop word and punctuation
KeywordTokensCleanWitness ==
    /\ kwPc = "done"
    /\ kwText = "data, that Data"
    /\ kwOut = <<"data">>

\* the surviving tokens of the input text, in text order
KwTokens == SelectSeq(SplitWs(ReplaceNonAlnum(ToLowerCase(kwText))), KeepWord)

\* C11: extractKeywords returns the surviving distinct tokens by descending
\* occurrence count, tokens of equal count in the order of their first
\* occurrence in the text
KeywordsRanked ==
    kwPc = "done" =>
        LET count(w) == Cardinality({i \in 1..Len(KwTokens) : KwTokens[i] = w})
            first(w) == CHOOSE i \in 1..Len(KwTokens) :
                            /\ KwTokens[i] = w
                            /\ \A j \in 1..(i - 1) : KwTokens[j] # w
        IN /\ {kwOut[i] : i \in 1..Len(kwOut)} = {KwTokens[i] : i \in 1..Len(KwTokens)}
           /\ \A i, j \in 1..Len(kwOut) :
                 i < j =>
                    \/ count(kwOut[i]) > count(kwOut[j])
                    \/ /\ count(kwOut[i]) = count(kwOut[j])
                       /\ first(kwOut[i]) < first(kwOut[j])

(***************************************************************************)
(* Specification SpecMock: generateIntelligentMock invoked twice           *)
(***************************************************************************)
MaxBrandLen == 30

\* the brand context is a prefix, up to MaxBrandLen characters, of one text
InitMock ==
    /\ mockPc = "first"
    /\ mockArgs \in
          [url : {"https://www.sony.com", "https://example.com/pricing?x=1",
                  "HTTP://Shop.Example.org:8080", "example.com", "not a url"},
           brandContext :
              {Slice0("EcoBottle - sustainable water bottle for students", n) :
                  n \in 0..MaxBrandLen},
           industry : {"", "audio"}]
    /\ mockOut = <<>>
    /\ OthersOff("mock")

MockInvoke ==
    /\ mockPc \in {"first", "second"}
    /\ UrlParses(mockArgs.url)
    /\ mockOut' = Append(mockOut,
                         generateIntelligentMock(mockArgs.url, mockArgs.brandContext,
                                                 mockArgs.industry))
    /\ mockPc' = IF mockPc = "first" THEN "second" ELSE "done"
    /\ UNCHANGED <<mockArgs>>
    /\ Only("mock")

\* new URL(url) throws
MockThrows ==
    /\ mockPc = "first"
    /\ ~UrlParses(mockArgs.url)
    /\ mockPc' = "threw"
    /\ UNCHANGED <<mockArgs, mockOut>>
    /\ Only("mock")

SpecMock == InitMock /\ [][MockInvoke \/ MockThrows]_vars

\* C8: for a URL that parses, the mock has the three metrics Visual Appeal,
\* Market Authority, Social Engagement in that order with the values
\* min(98, 70 + s), min(98, 60 + s), min(98, 50 + s), where s is
\* (length of hostname + length of brandContext) mod 30, and a second
\* invocation with the same arguments returns the same record
MockMetrics ==
    \A k \in 1..Len(mockOut) :
        LET s == (Len(hostname(mockArgs.url)) + Len(mockArgs.brandContext)) % 30
            capped(v) == IF v > 98 THEN 98 ELSE v
        IN /\ mockOut[k].metrics =
                 << [label |-> "Visual Appeal", value |-> capped(70 + s)],
                    [label |-> "Market Authority", value |-> capped(60 + s)],
                    [label |-> "Social Engagement", value |-> capped(50 + s)] >>
           /\ mockOut[k] = mockOut[1]

\* both invocations done, on inputs for which the cap applies: the host
\* www.sony.com has 12 characters, the brand context 17, and 70 + 29 > 98
MockMetricsWitness ==
    /\ mockPc = "done"
    /\ Len(mockOut) = 2
    /\ mockArgs.url = "https://www.sony.com"
    /\ Len(mockArgs.brandContext) = 17
    /\ mockOut[2].metrics[1].value = 98
    /\ mockOut[2].metrics[2].value = 89

(***************************************************************************)
(* Specification SpecRec: generateRecommendations on bounded insight lists *)
(***************************************************************************)
\* the insight analyzeCompetitor pushes after a scrape
ScrapedInsight(url, analysis) ==
    [url |-> url, domain |-> hostname(url), analysis |-> analysis, scrapedAt |-> "now"]

\* the failed insight without its error
FailedInsightWithoutError(url, message) ==
    [url |-> url, domain |-> hostname(url), analysis |-> Null]

\* the insight analyzeCompetitor pushes from its catch block
FailedInsight(url, message) ==
    [url |-> url, domain |-> hostname(url), error |-> message, analysis |-> Null]

\* the insight the browser-side handleAnalyze pushes from its catch block
MockedInsight(url, mockData, message) ==
    [url |-> url, domain |-> hostname(url), analysis |-> mockData, scrapedAt |-> "now",
     error |-> message]

MaxInsights == 3

\* analyses of the shape extractInsights returns
EmptyPage ==
    [title |-> "", metaDescription |-> "", headings |-> <<>>, keywords |-> <<>>,
     valuePropositions |-> <<>>, pricingInfo |-> <<>>, testimonials |-> <<>>,
     designElements |-> [hasVideo |-> FALSE, hasImages |-> 0, hasCTA |-> 0,
                         colorScheme |-> <<>>,
                         layout |-> [hasHeader |-> FALSE, hasNav |-> FALSE,
                                     hasFooter |-> FALSE, hasSidebar |-> FALSE,
                                     sections |-> 0]],
     contentLength |-> 0, wordCount |-> 1]

PageWith(kws, props, quotes, video, ctas, words) ==
    [EmptyPage EXCEPT !.keywords = kws, !.valuePropositions = props,
                      !.testimonials = quotes, !.designElements.hasVideo = video,
                      !.designElements.hasCTA = ctas, !.wordCount = words]

RECURSIVE SeqsUpTo(_, _)
SeqsUpTo(S, n) ==
    IF n = 0 THEN {<<>>}
    ELSE LET shorter == SeqsUpTo(S, n - 1)
         IN shorter \cup {Append(q, x) : q \in shorter, x \in S}

\* up to MaxInsights insights, each failed, scraped or mocked
InitRec ==
    /\ recPc = "input"
    /\ recInsights \in SeqsUpTo(
          { FailedInsight("https://example.com", "Failed to scrape this competitor"),
            ScrapedInsight("https://example.com", EmptyPage),
            ScrapedInsight("https://www.sony.com",
                           PageWith(<<"data", "pack">>, <<"Start your free trial">>,
                                    <<"This product changed my workflow">>, TRUE, 10, 1000)),
            ScrapedInsight("https://www.bose.com",
                           PageWith(<<"data">>, <<>>, <<>>, TRUE, 5, 500)),
            ScrapedInsight("https://www.jbl.com",
                           PageWith(<<>>, <<>>, <<>>, FALSE, 6, 501)),
            ScrapedInsight("https://www.sony.com",
                           generateIntelligentMock("https://www.sony.com", "EcoBottle", "audio")),
            MockedInsight("https://www.bose.com",
                          generateIntelligentMock("https://www.bose.com", "EcoBottle", ""),
                          "Scraping failed for https://www.bose.com") },
          MaxInsights)
    /\ recOut = <<>>
    /\ OthersOff("rec")

RecGenerate ==
    /\ recPc = "input"
    /\ recOut' = generateRecommendations(recInsights, "EcoBottle")
    /\ recPc' = "done"
    /\ UNCHANGED <<recInsights>>
    /\ Only("rec")

SpecRec == InitRec /\ [][RecGenerate]_vars

\* the insights of the input that have an analysis and no error
RecValid == {i \in 1..Len(recInsights) :
                ~IsNull(recInsights[i].analysis) /\ ~HasError(recInsights[i])}

\* C2: the result is the one-element list holding the sentinel exactly when
\* no insight has an analysis and no error; then it is not the empty list,
\* and with a valid insight it is not the sentinel
SentinelIffNoValidInsight ==
    recPc = "done" =>
        /\ (recOut = <<Sentinel>>) <=> (RecValid = {})
        /\ RecValid = {} => recOut # <<>>
        /\ RecValid # {} => \A k \in 1..Len(recOut) : recOut[k] # Sentinel

\* a list of two insights, one failed and one holding a mock next to an
\* error, answered with the sentinel
SentinelIffNoValidInsightWitness ==
    /\ recPc = "done"
    /\ Len(recInsights) = 2
    /\ RecValid = {}
    /\ \E i \in 1..2 : ~IsNull(recInsights[i].analysis)
    /\ recOut = <<Sentinel>>

RecVideoCount == Cardinality({i \in RecValid : recInsights[i].analysis.designElements.hasVideo})

VideoRecs == {k \in 1..Len(recOut) :
                 "title" \in DOMAIN recOut[k] /\ recOut[k].title = "Video Content Opportunity"}

\* C9: the Video Content Opportunity recommendation is present exactly when
\* the valid insights with hasVideo are more than half of the valid insights,
\* its text carries round(100 * videoCount / validCount), and it is present
\* with 100 when every valid insight (at least one) has hasVideo
VideoRecommendation ==
    recPc = "done" =>
        LET v == RecVideoCount
            n == Cardinality(RecValid)
        IN /\ (VideoRecs # {}) <=> (2 * v > n)
           /\ \A k \in VideoRecs :
                 \E p \in 0..100 :
                    /\ 2 * p * n <= 200 * v + n
                    /\ 200 * v + n < 2 * p * n + 2 * n
                    /\ recOut[k].insight =
                           ToString(p) \o "% of analyzed competitors use video content"
           /\ (n >= 1 /\ v = n) =>
                 \E k \in VideoRecs :
                    recOut[k].insight = "100% of analyzed competitors use video content"

\* three valid insights, two of them with video: present with 67
VideoRecommendationWitness ==
    /\ recPc = "done"
    /\ Cardinality(RecValid) = 3
    /\ RecVideoCount = 2
    /\ \E k \in VideoRecs :
          recOut[k].insight = "67% of analyzed competitors use video content"

\* The gates of the six templates in declaration order, each computed
\* from the valid insights alone (a member an analysis lacks counts as
\* empty or 0).
RecGates ==
    LET A(i) == recInsights[i].analysis
        n == Cardinality(RecValid)
        RECURSIVE Total(_, _)
        Total(F(_), S) ==
            IF S = {} THEN 0 ELSE LET i == CHOOSE i \in S : TRUE IN F(i) + Total(F, S \ {i})
        Ctas(i) == Get(A(i).designElements, "hasCTA", 0)
        Words(i) == Get(A(i), "wordCount", 0)
    IN << \E i \in RecValid : Get(A(i), "keywords", <<>>) # <<>>,
          2 * RecVideoCount > n,
          \E i \in RecValid : Get(A(i), "valuePropositions", <<>>) # <<>>,
          Total(Ctas, RecValid) > 5 * n,
          \E i \in RecValid : Len(Get(A(i), "testimonials", <<>>)) >= 1,
          Total(Words, RecValid) > 500 * n >>

\* C20: with at least one valid insight the result is exactly the
\* subsequence of the six templates, in the fixed order Content Strategy,
\* Media Strategy, Messaging, Conversion Optimization, Trust Building,
\* Content Quality, whose gates pass, each gate on its own; each category
\* at most once, with priorities high, medium, high, medium, high, medium.
TemplatesInOrder ==
    LET templates ==
            <<[category |-> "Content Strategy", priority |-> "high"],
              [category |-> "Media Strategy", priority |-> "medium"],
              [category |-> "Messaging", priority |-> "high"],
              [category |-> "Conversion Optimization", priority |-> "medium"],
              [category |-> "Trust Building", priority |-> "high"],
              [category |-> "Content Quality", priority |-> "medium"]>>
        Passes(k) == RecGates[k]
        passing == SelectSeq(<<1, 2, 3, 4, 5, 6>>, Passes)
    IN (recPc = "done" /\ RecValid # {}) =>
          /\ Len(recOut) = Len(passing)
          /\ \A j \in DOMAIN passing :
                /\ recOut[j].category = templates[passing[j]].category
                /\ recOut[j].priority = templates[passing[j]].priority

\* Two valid insights, one with a keyword, 5 CTAs and 500 words, one with 6
\* CTAs and 501 words, one video between them: the averages 5.5 and 500.5
\* pass, the video share of one half does not.
TemplatesInOrderWitness ==
    /\ recPc = "done"
    /\ Cardinality(RecValid) = 2
    /\ RecGates = <<TRUE, FALSE, FALSE, TRUE, FALSE, TRUE>>
    /\ [j \in DOMAIN recOut |-> recOut[j].category] =
          <<"Content Strategy", "Conversion Optimization", "Content Quality">>

(***************************************************************************)
(* Specification SpecDom: extractInsights on bounded documents             *)
(***************************************************************************)
MaxElements == 2

Element(tag, class, text) ==
    [tag |-> tag, class |-> class, role |-> "", name |-> "", content |-> "", src |-> "",
     style |-> "", text |-> text]

\* up to MaxElements elements, among them one no selector matches
InitDom ==
    /\ domPc = "input"
    /\ domDoc \in SeqsUpTo(
          { Element("title", "", " Acme Audio "),
            [Element("meta", "", "") EXCEPT !.name = "description",
                                            !.content = "Speakers and more"],
            [Element("meta", "", "") EXCEPT !.name = "viewport", !.content = "width=1"],
            Element("h1", "", "Best Data Tools"),
            Element("p", "", "We sell data packs for $5 each"),
            Element("p", "", "   "),
            Element("button", "cta-main", "Start your free trial"),
            Element("div", "customer-review", "This product changed my workflow"),
            [Element("iframe", "", "") EXCEPT !.src = "https://www.youtube.com/embed/x"],
            Element("img", "", ""),
            [Element("div", "", "Sale") EXCEPT
                !.style = "color: #ff0000; background: RGB(1, 2, 3)"],
            [Element("div", "sidebar", "20 USD") EXCEPT !.role = "navigation"],
            Element("section", "hero", "Sound that moves you") },
          MaxElements)
    /\ domOut = <<>>
    /\ OthersOff("dom")

DomExtract ==
    /\ domPc = "input"
    /\ \E analysis \in extractInsights(domDoc, "EcoBottle") : domOut' = <<analysis>>
    /\ domPc' = "done"
    /\ UNCHANGED <<domDoc>>
    /\ Only("dom")

SpecDom == InitDom /\ [][DomExtract]_vars

\* no element of the document is matched by a selector extractInsights queries
NoSelectorMatches ==
    \A i \in 1..Len(domDoc) : \A sel \in Selectors : ~Matches(sel, domDoc[i])

\* C3: on a document in which no queried selector matches an element,
\* extractInsights returns empty title and metaDescription, empty headings,
\* keywords, valuePropositions, pricingInfo, testimonials and colorScheme,
\* hasVideo and the layout flags false, and hasImages, hasCTA,
\* layout.sections, contentLength and wordCount all 0
EmptyDocumentAllDefaults ==
    (domPc = "done" /\ NoSelectorMatches) =>
        LET a == domOut[1]
        IN /\ a.title = "" /\ a.metaDescription = ""
           /\ a.headings = <<>> /\ a.keywords = <<>> /\ a.valuePropositions = <<>>
           /\ a.pricingInfo = <<>> /\ a.testimonials = <<>>
           /\ a.designElements.colorScheme = <<>>
           /\ ~a.designElements.hasVideo
           /\ ~a.designElements.layout.hasHeader /\ ~a.designElements.layout.hasNav
           /\ ~a.designElements.layout.hasFooter /\ ~a.designElements.layout.hasSidebar
           /\ a.designElements.hasImages = 0 /\ a.designElements.hasCTA = 0
           /\ a.designElements.layout.sections = 0
           /\ a.contentLength = 0
           /\ a.wordCount = 0

(***************************************************************************)
(* analyzeCompetitor: one request through the handler                      *)
(*                                                                         *)
(* revision "manual" is the handler that requires competitor URLs,         *)
(* revision "discover" the one with auto-discovery and the mock fallback.  *)
(***************************************************************************)
MaxCompetitors == 3

domainMap ==
    [audio |-> <<"https://www.sony.com", "https://www.bose.com", "https://www.jbl.com">>,
     tech |-> <<"https://www.apple.com", "https://www.samsung.com", "https://www.microsoft.com">>,
     fashion |-> <<"https://www.zara.com", "https://www.nike.com", "https://www.adidas.com">>,
     default |-> <<"https://www.google.com", "https://www.amazon.com", "https://www.meta.com">>]

\* a body field that is a string: "" when absent (both are falsy)
StringField(b, field) == Get(b, field, "")

\* Object.keys(domainMap).find(k => industry?.toLowerCase().includes(k)
\*                                  || brandContext?.toLowerCase().includes(k)) || 'default'
DiscoveryKey(industry, brandContext) ==
    LET hits == SelectSeq(<<"audio", "tech", "fashion", "default">>,
                          LAMBDA k : \/ Contains(ToLowerCase(industry), k)
                                     \/ Contains(ToLowerCase(brandContext), k))
    IN IF hits = <<>> THEN "default" ELSE hits[1]

\* brandContext is required only to be present, not to be non-empty
BrandContextAbsent(b) == "brandContext" \notin DOMAIN b

\* !brandContext
BrandContextMissing(b) == StringField(b, "brandContext") = ""

\* !competitorUrls || competitorUrls.length === 0
NoCompetitorUrls(b) == Get(b, "competitorUrls", <<>>) = <<>>

\* the request is answered 400 before anything is scraped
Rejects(rev, b) ==
    \/ BrandContextMissing(b)
    \/ rev = "manual" /\ NoCompetitorUrls(b)
    \/ rev = "discover" /\ NoCompetitorUrls(b) /\ ~Get(b, "autoDiscover", FALSE)

\* the list the loop runs over
ResolveUrls(rev, b) ==
    IF rev = "discover" /\ Get(b, "autoDiscover", FALSE) /\ NoCompetitorUrls(b)
    THEN domainMap[DiscoveryKey(StringField(b, "industry"), StringField(b, "brandContext"))]
    ELSE Get(b, "competitorUrls", <<>>)

\* the discover revision scrapes only with a configured key
KeyConfigured(key) == key # "" /\ key # "YOUR_SCRAPINGBEE_KEY"

\* the URL the loop is at, after the insights pushed so far (a loop that
\* stayed at the first URL is kept for comparison)
CurrentUrlFirst == Slice0(urlsToAnalyze, MaxCompetitors)[1]

CurrentUrl == Slice0(urlsToAnalyze, MaxCompetitors)[Len(insights) + 1]

LoopDone == Len(insights) >= Len(Slice0(urlsToAnalyze, MaxCompetitors))

\* one loop iteration, once the scrape has returned a document (scraped is
\* <<doc>>, analysis what extractInsights made of it) or has failed or was not
\* attempted (scraped is <<>>).  new URL(url) is evaluated on every path, and
\* again in the catch block, from where a TypeError reaches the outer catch.
\* The insight pushed, or <<>> when the iteration throws.
Iteration(rev, url, scraped, analysis, b) ==
    IF ~UrlParses(url) THEN <<>>
    ELSE IF scraped # <<>> THEN <<ScrapedInsight(url, analysis)>>
    ELSE IF rev = "manual" THEN <<FailedInsight(url, "Failed to scrape this competitor")>>
    ELSE <<ScrapedInsight(url, generateIntelligentMock(
               url, StringField(b, "brandContext"), StringField(b, "industry")))>>

MaxUrls == 4

\* a field that may be absent: <<>> or <<value>>
Opt(field, o) == IF o = <<>> THEN <<>> ELSE [f \in {field} |-> o[1]]

\* the revision, the key, and the request body: with up to MaxUrls competitor
\* URLs, and without them in every combination of industry and autoDiscover
Init ==
    /\ revision \in {"manual", "discover"}
    /\ scrapingKey \in {"CKZJJZGD8EAWSAZCLBC6W0ERTBF1V3EDB1R9GX0B7NQS4PC5DZDH4R56USTQ4Y46PM3XKUC8BPNTAP19"} \cup
                       (IF revision = "discover" THEN {"YOUR_SCRAPINGBEE_KEY"} ELSE {})
    /\ body \in
          { Opt("brandContext", b) @@ Opt("competitorUrls", <<q>>) :
              b \in {<<>>, <<"">>, <<"EcoBottle">>},
              q \in SeqsUpTo({"https://example.com", "HTTP://Shop.Example.org:8080/a",
                              "not a url"}, MaxUrls) \ {<<>>} }
          \cup
          { Opt("brandContext", b) @@ Opt("competitorUrls", u) @@ Opt("industry", i)
                @@ Opt("autoDiscover", a) :
              b \in {<<>>, <<"">>, <<"EcoBottle">>, <<"EcoBottle tech">>},
              u \in {<<>>, <<<<>>>>, <<<<"https://example.com">>>>},
              i \in {<<>>, <<"Pro Audio">>, <<"Fashion">>},
              a \in {<<>>, <<TRUE>>} }
    /\ pc = "received"
    /\ urlsToAnalyze = <<>>
    /\ insights = <<>>
    /\ requests = <<>>
    /\ response = Null
    /\ OthersOff("ac")

\* validation fails: 400
Reject ==
    /\ pc = "received"
    /\ Rejects(revision, body)
    /\ response' =
          [status |-> 400,
           msg |-> IF revision = "manual"
                   THEN "Brand context and at least one competitor URL required"
                   ELSE IF BrandContextMissing(body) THEN "Brand context is required"
                   ELSE "At least one competitor URL or auto-discovery is required"]
    /\ pc' = "responded"
    /\ UNCHANGED <<revision, scrapingKey, body, urlsToAnalyze, insights, requests>>
    /\ Only("ac")

\* validation passes: the URL list is resolved and the loop starts
Accept ==
    /\ pc = "received"
    /\ ~Rejects(revision, body)
    /\ urlsToAnalyze' = ResolveUrls(revision, body)
    /\ pc' = "loop"
    /\ UNCHANGED <<revision, scrapingKey, body, insights, requests, response>>
    /\ Only("ac")

\* axios.get is called for the URL the loop is at
SendScrape ==
    /\ pc = "loop"
    /\ ~LoopDone
    /\ revision = "manual" \/ KeyConfigured(scrapingKey)
    /\ requests' = Append(requests, CurrentUrl)
    /\ pc' = "awaiting"
    /\ UNCHANGED <<revision, scrapingKey, body, urlsToAnalyze, insights, response>>
    /\ Only("ac")

\* the outcome of one iteration is pushed, or the handler answers 500
Finish(pushed) ==
    IF pushed = <<>>
    THEN /\ response' = [status |-> 500, msg |-> "Failed to analyze competitors",
                          error |-> "Invalid URL"]
         /\ pc' = "responded"
         /\ UNCHANGED insights
    ELSE /\ insights' = insights \o pushed
         /\ pc' = "loop"
         /\ UNCHANGED response

\* the scrape request returns a page, empty or with a paragraph and a video
ScrapeSucceeds ==
    /\ pc = "awaiting"
    /\ \E doc \in
          { <<>>,
            << Element("p", "", "We sell data packs for $5 each"),
               [Element("iframe", "", "") EXCEPT
                   !.src = "https://www.youtube.com/embed/x"] >> } :
          \E analysis \in extractInsights(doc, StringField(body, "brandContext")) :
             Finish(Iteration(revision, CurrentUrl, <<doc>>, analysis, body))
    /\ UNCHANGED <<revision, scrapingKey, body, urlsToAnalyze, requests>>
    /\ Only("ac")

\* the scrape request fails (error status, network error, timeout)
ScrapeFails ==
    /\ pc = "awaiting"
    /\ Finish(Iteration(revision, CurrentUrl, <<>>, Null, body))
    /\ UNCHANGED <<revision, scrapingKey, body, urlsToAnalyze, requests>>
    /\ Only("ac")

\* the discover revision without a configured key: the mock, no request
MockWithoutScrape ==
    /\ pc = "loop"
    /\ ~LoopDone
    /\ revision = "discover" /\ ~KeyConfigured(scrapingKey)
    /\ Finish(Iteration(revision, CurrentUrl, <<>>, Null, body))
    /\ UNCHANGED <<revision, scrapingKey, body, urlsToAnalyze, requests>>
    /\ Only("ac")

\* the loop is over: recommendations are generated and the response is sent
Respond ==
    /\ pc = "loop"
    /\ LoopDone
    /\ response' = [status |-> 200,
                    brandContext |-> body.brandContext,
                    insights |-> insights,
                    recommendations |->
                        generateRecommendations(insights, body.brandContext),
                    analyzedAt |-> "now"]
    /\ pc' = "responded"
    /\ UNCHANGED <<revision, scrapingKey, body, urlsToAnalyze, insights, requests>>
    /\ Only("ac")

Spec ==
    Init /\ [][Reject \/ Accept \/ SendScrape \/ ScrapeSucceeds \/ ScrapeFails \/
                 MockWithoutScrape \/ Respond]_vars

\* C1: whatever the URLs are and however the scrapes end, a request that
\* passes validation is answered 200 with min(3, number of URLs) insights,
\* one per URL in input order; a failure on one URL never aborts the batch
BatchNeverAborts ==
    (pc = "responded" /\ ~Rejects(revision, body)) =>
        /\ response.status = 200
        /\ Len(response.insights) = Min(3, Len(urlsToAnalyze))
        /\ \A i \in 1..Len(response.insights) : response.insights[i].url = urlsToAnalyze[i]

\* C6: a request whose brandContext is missing or empty is answered 400 with
\* no scrape request sent and no insight built; so is, in the discover
\* revision, a request with no competitor URL and autoDiscover not set
ValidationRejectsWithoutScraping ==
    LET noBrand == "brandContext" \notin DOMAIN body \/ body.brandContext = ""
        noUrls == "competitorUrls" \notin DOMAIN body \/ body.competitorUrls = <<>>
        noDiscover == "autoDiscover" \notin DOMAIN body \/ ~body.autoDiscover
    IN (pc # "received" /\ (noBrand \/ (revision = "discover" /\ noUrls /\ noDiscover))) =>
          /\ pc = "responded"
          /\ response.status = 400
          /\ requests = <<>>
          /\ insights = <<>>

\* an empty brandContext sent with competitor URLs, answered 400
ValidationRejectsWithoutScrapingWitness ==
    /\ pc = "responded"
    /\ "brandContext" \in DOMAIN body /\ body.brandContext = ""
    /\ "competitorUrls" \in DOMAIN body /\ Len(body.competitorUrls) = 2
    /\ response.status = 400
    /\ requests = <<>>

\* C12: in the manual revision, a request with exactly one well-formed URL
\* whose scrape fails is answered 200 with exactly one insight, its error set
\* and its analysis null, and with the sentinel as recommendations
FailedScrapeDegrades ==
    [][(revision = "manual" /\ Len(urlsToAnalyze) = 1 /\ UrlParses(urlsToAnalyze[1])) =>
          /\ ScrapeFails =>
                /\ pc' = "loop"
                /\ Len(insights') = 1
                /\ HasError(insights'[1])
                /\ insights'[1].analysis = Null
          /\ (pc = "loop" /\ insights # <<>> /\ HasError(insights[1])) =>
                /\ pc' = "responded"
                /\ response'.status = 200
                /\ response'.insights = insights
                /\ Len(response'.insights) = 1
                /\ response'.recommendations = <<Sentinel>>]_vars

\* the answer to a request for https://example.com alone, whose scrape failed
FailedScrapeDegradesWitness ==
    /\ pc = "responded"
    /\ revision = "manual"
    /\ urlsToAnalyze = <<"https://example.com">>
    /\ requests = <<"https://example.com">>
    /\ response.status = 200
    /\ response.insights =
          <<[url |-> "https://example.com", domain |-> "example.com",
             error |-> "Failed to scrape this competitor", analysis |-> Null]>>
    /\ response.recommendations = <<Sentinel>>

(***************************************************************************)
(* JavaScript values that carry their type                                 *)
(*                                                                         *)
(* What JSON.parse yields for a member may be of any JSON type, so a value *)
(* is a record of its type t and its content v, a sequence of strings: the *)
(* string itself, the numeral of a number, the elements of an array.       *)
(***************************************************************************)
JStr(s) == [t |-> "string", v |-> <<s>>]
JNum(numeral) == [t |-> "number", v |-> <<numeral>>]
JArr(xs) == [t |-> "array", v |-> xs]
JNull == [t |-> "null", v |-> <<>>]
JUndefined == [t |-> "undefined", v |-> <<>>]

\* obj.k: undefined when the object has no such member
Member(obj, k) == Get(obj, k, JUndefined)

\* ToBoolean
Truthy(val) ==
    CASE val.t = "string" -> val.v[1] # ""
      [] val.t = "number" -> val.v[1] \notin {"0", "-0"}
      [] val.t = "array" -> TRUE
      [] OTHER -> FALSE

\* Array.isArray
IsArray(val) == val.t = "array"

\* a || b
OrElse(val, default) == IF Truthy(val) THEN val ELSE default

(***************************************************************************)
(* JSON text                                                               *)
(***************************************************************************)
Quote(s) == "\"" \o s \o "\""

\* the members of the strategy object, in the order of the system prompt
strategyFields ==
    <<"product", "audience", "goal", "tone", "platforms", "stylistics", "location",
      "competitors", "keyFeatures", "painPoints", "budget", "timeline">>

\* JSON.stringify of an object whose members are among strategyFields
StringifyObject(obj) ==
    LET present == SelectSeq(strategyFields, LAMBDA k : k \in DOMAIN obj)
        Stringify(val) ==
            CASE val.t = "string" -> Quote(val.v[1])
              [] val.t = "number" -> val.v[1]
              [] val.t = "array" ->
                    "[" \o Join([i \in 1..Len(val.v) |-> Quote(val.v[i])], ",") \o "]"
              [] OTHER -> "null"
    IN "{" \o Join([i \in 1..Len(present) |->
                       Quote(present[i]) \o ":" \o Stringify(obj[present[i]])], ",") \o "}"

\* String.prototype.indexOf, counted from 1; 0 when sub does not occur
IndexOf(s, sub) ==
    IF Contains(s, sub)
    THEN CHOOSE i \in 1..Len(s) + 1 :
            /\ Sub(s, i, i + Len(sub) - 1) = sub
            /\ \A j \in 1..(i - 1) : Sub(s, j, j + Len(sub) - 1) # sub
    ELSE 0

\* jsonText.match(/\{[\s\S]*\}/): from the first { to the last } behind it, or
\* <<>> for no match
MatchObject(s) ==
    LET opens == {i \in 1..Len(s) : CharAt(s, i) = "{"}
        closes == {i \in 1..Len(s) : CharAt(s, i) = "}"}
        first == CHOOSE i \in opens : \A j \in opens : i <= j
        last == CHOOSE i \in closes : \A j \in closes : j <= i
    IN IF opens = {} \/ closes = {} THEN <<>>
       ELSE IF last < first THEN <<>>
       ELSE <<Sub(s, first, last)>>

\* the code fences of Markdown; a TLA+ string cannot hold the backquote, so
\* the texts of the model write it as an apostrophe
Fence == "'''"

\* the text handed to JSON.parse, after the code fences are taken off;
\* SplitHead is s.split(sep)[0], and SplitSecond s.split(sep)[1] for an s
\* that contains sep
ExtractJsonText(text) ==
    LET jsonText == Trim(text)
        SplitHead(s, sep) == IF Contains(s, sep) THEN Sub(s, 1, IndexOf(s, sep) - 1) ELSE s
        SplitSecond(s, sep) == SplitHead(Sub(s, IndexOf(s, sep) + Len(sep), Len(s)), sep)
    IN IF Contains(jsonText, (Fence \o "json"))
       THEN Trim(SplitHead(SplitSecond(jsonText, (Fence \o "json")), Fence))
       ELSE IF Contains(jsonText, Fence)
       THEN Trim(SplitHead(SplitSecond(jsonText, Fence), Fence))
       ELSE jsonText

(***************************************************************************)
(* parsePromptToStrategy: the keyword fallback                             *)
(***************************************************************************)
\* U+2013 and U+2014 are outside the characters of a TLA+ string; the texts
\* of the model write them as ~ and ^
Dashes == {"-", "~", "^"}

ProductSliceLength == 50

DefaultPlatforms == <<"Instagram", "YouTube", "TikTok">>

IncludesAny(s, subs) == \E sub \in subs : Contains(s, sub)

DetectAudience(promptLower) ==
    IF IncludesAny(promptLower, {"student", "college"})
    THEN "college students and young adults"
    ELSE IF IncludesAny(promptLower, {"professional", "business"})
    THEN "working professionals"
    ELSE IF IncludesAny(promptLower, {"parent", "family"})
    THEN "parents and families"
    ELSE IF IncludesAny(promptLower, {"fitness", "gym", "athlete"})
    THEN "fitness enthusiasts and athletes"
    ELSE "target audience"

DetectTone(promptLower) ==
    IF IncludesAny(promptLower, {"fun", "playful"})
    THEN "fun, energetic, and playful"
    ELSE IF IncludesAny(promptLower, {"luxury", "premium"})
    THEN "sophisticated, elegant, and aspirational"
    ELSE IF IncludesAny(promptLower, {"eco", "sustainable", "green"})
    THEN "inspiring, educational, and eco-conscious"
    ELSE IF IncludesAny(promptLower, {"tech", "innovation"})
    THEN "innovative, forward-thinking, and tech-savvy"
    ELSE "engaging and professional"

\* a cascade that asked for sales and revenue before awareness
DetectGoalSalesFirst(promptLower) ==
    IF IncludesAny(promptLower, {"sales", "revenue"})
    THEN "drive online sales and conversions"
    ELSE IF Contains(promptLower, "awareness")
    THEN "build brand awareness and visibility"
    ELSE IF Contains(promptLower, "engagement")
    THEN "increase social media engagement"
    ELSE IF Contains(promptLower, "launch")
    THEN "successful product launch and market entry"
    ELSE "increase brand awareness and drive sales"

DetectGoal(promptLower) ==
    IF Contains(promptLower, "awareness")
    THEN "build brand awareness and visibility"
    ELSE IF IncludesAny(promptLower, {"sales", "revenue"})
    THEN "drive online sales and conversions"
    ELSE IF Contains(promptLower, "engagement")
    THEN "increase social media engagement"
    ELSE IF Contains(promptLower, "launch")
    THEN "successful product launch and market entry"
    ELSE "increase brand awareness and drive sales"

parsePromptToStrategy(text) ==
    LET promptLower == ToLowerCase(text)
        \* promptText.match(/^([^-–—]+)/): the longest leading run of
        \* characters that are no dash, or <<>> when the run is empty
        RECURSIVE LeadingNonDash(_)
        LeadingNonDash(s) ==
            IF s = "" THEN ""
            ELSE IF Head(s) \in Dashes THEN "" ELSE Head(s) \o LeadingNonDash(Tail(s))
        productMatch ==
            IF LeadingNonDash(text) = "" THEN <<>> ELSE <<LeadingNonDash(text)>>
        product == IF productMatch # <<>> THEN Trim(productMatch[1])
                   ELSE Slice0(text, ProductSliceLength)
    IN [product |-> JStr(product),
        audience |-> JStr(DetectAudience(promptLower)),
        goal |-> JStr(DetectGoal(promptLower)),
        tone |-> JStr(DetectTone(promptLower)),
        platforms |-> JArr(DefaultPlatforms),
        stylistics |-> JStr(IF IncludesAny(promptLower, {"eco", "sustainable"})
                            THEN "eco-friendly and natural"
                            ELSE "modern and creative"),
        location |-> JStr("IN"),
        competitors |-> JArr(<<>>),
        keyFeatures |-> JArr(<<>>),
        painPoints |-> JArr(<<>>),
        budget |-> JStr("Not specified"),
        timeline |-> JStr("Not specified")]

\* parsePromptToStrategy applied to prompts made of up to MaxPromptWords
\* words, among them keywords of every group in either case, to the
\* prompt of the end-to-end scenario, and to prompts with each kind of
\* dash, with a leading dash, and with more than 50 characters and no dash.
MaxPromptWords == 3

InitParse ==
    LET Words == {"Students", "business", "family", "gym",
                  "fun", "PREMIUM", "sustainable", "tech",
                  "awareness", "sales", "engagement", "launch"}
        Prompts == {Join(ws, " ") : ws \in SeqsUpTo(Words, MaxPromptWords)}
                      \cup {"EcoBottle - sustainable water bottle for students",
                            "AquaPure ~ premium bottle", " FitTrack ^gym app - launch",
                            "- EcoBottle for students",
                            "A reusable steel water bottle for busy college students"}
    IN /\ parsePc = "called" /\ parseText \in Prompts /\ parseOut = <<>>
       /\ OthersOff("parse")

ParseApply ==
    /\ parsePc = "called"
    /\ parsePc' = "returned"
    /\ parseOut' = parsePromptToStrategy(parseText)
    /\ UNCHANGED <<parseText>>
    /\ Only("parse")

SpecParse == InitParse /\ [][ParseApply]_vars

\* The value of the first group, in the order given, one of whose keywords
\* occurs in the text; the default when there is none.
FirstGroup(groups, default, text) ==
    LET hits == {i \in DOMAIN groups : IncludesAny(text, groups[i].keywords)}
    IN IF hits = {} THEN default
       ELSE groups[CHOOSE i \in hits : \A j \in hits : i <= j].value

\* C15: audience, tone and goal are chosen independently, each by the first
\* keyword group in declaration order that occurs as a case-insensitive
\* substring of the text, else the generic default; so a text with
\* "students" and "sustainable", no fun/playful/luxury/premium and no goal
\* keyword gets the college audience, an eco-conscious tone and the
\* default goal.
KeywordCascades ==
    LET lower == ToLowerCase(parseText) IN
    parsePc = "returned" =>
       /\ parseOut.audience = JStr(FirstGroup(
             <<[keywords |-> {"student", "college"},
                value |-> "college students and young adults"],
               [keywords |-> {"professional", "business"}, value |-> "working professionals"],
               [keywords |-> {"parent", "family"}, value |-> "parents and families"],
               [keywords |-> {"fitness", "gym", "athlete"},
                value |-> "fitness enthusiasts and athletes"]>>,
             "target audience", lower))
       /\ parseOut.tone = JStr(FirstGroup(
             <<[keywords |-> {"fun", "playful"}, value |-> "fun, energetic, and playful"],
               [keywords |-> {"luxury", "premium"},
                value |-> "sophisticated, elegant, and aspirational"],
               [keywords |-> {"eco", "sustainable", "green"},
                value |-> "inspiring, educational, and eco-conscious"],
               [keywords |-> {"tech", "innovation"},
                value |-> "innovative, forward-thinking, and tech-savvy"]>>,
             "engaging and professional", lower))
       /\ parseOut.goal = JStr(FirstGroup(
             <<[keywords |-> {"awareness"}, value |-> "build brand awareness and visibility"],
               [keywords |-> {"sales", "revenue"},
                value |-> "drive online sales and conversions"],
               [keywords |-> {"engagement"}, value |-> "increase social media engagement"],
               [keywords |-> {"launch"},
                value |-> "successful product launch and market entry"]>>,
             "increase brand awareness and drive sales", lower))
       /\ ( /\ Contains(parseText, "students") /\ Contains(parseText, "sustainable")
            /\ ~IncludesAny(lower, {"fun", "playful", "luxury", "premium"})
            /\ ~IncludesAny(lower,
                            {"awareness", "sales", "revenue", "engagement", "launch"}) )
          => /\ parseOut.audience = JStr("college students and young adults")
             /\ Contains(parseOut.tone.v[1], "eco-conscious")
             /\ parseOut.goal = JStr("increase brand awareness and drive sales")

KeywordCascadesWitness ==
    /\ parsePc = "returned"
    /\ parseText = "EcoBottle - sustainable water bottle for students"
    /\ parseOut.audience = JStr("college students and young adults")
    /\ parseOut.tone = JStr("inspiring, educational, and eco-conscious")
    /\ parseOut.goal = JStr("increase brand awareness and drive sales")

\* C21: the product is the trimmed text before the first dash-like
\* character when the text has one, and the first 50 characters of the
\* text otherwise.
ProductBeforeDash ==
    parsePc = "returned" =>
       parseOut.product =
          JStr(IF \E i \in 1 .. Len(parseText) : CharAt(parseText, i) \in Dashes
               THEN LET first == CHOOSE i \in 1 .. Len(parseText) :
                                    /\ CharAt(parseText, i) \in Dashes
                                    /\ \A j \in 1 .. i - 1 : CharAt(parseText, j) \notin Dashes
                    IN Trim(Sub(parseText, 1, first - 1))
               ELSE Sub(parseText, 1, 50))

\* C22: stylistics, location, competitors, keyFeatures, painPoints,
\* budget and timeline are the same for every text (what the empty text
\* gets); the three lists are empty, budget and timeline 'Not specified'.
OtherFieldsConstant ==
    parsePc = "returned" =>
       /\ \A f \in {"stylistics", "location", "competitors", "keyFeatures", "painPoints",
                     "budget", "timeline"} :
             parseOut[f] = parsePromptToStrategy("")[f]
       /\ \A f \in {"competitors", "keyFeatures", "painPoints"} : parseOut[f] = JArr(<<>>)
       /\ \A f \in {"budget", "timeline"} : parseOut[f] = JStr("Not specified")

(***************************************************************************)
(* analyzeWithGemini: what becomes of the completion                       *)
(***************************************************************************)
\* strategy.platforms as returned: the parsed list when it is a non-empty
\* array, the fixed three otherwise
AnyArrayPlatforms(val) == IF IsArray(val) THEN val ELSE JArr(DefaultPlatforms)

NormalizePlatforms(val) ==
    IF IsArray(val) /\ Len(val.v) > 0 THEN val ELSE JArr(DefaultPlatforms)

ListAsGiven(val) == val

\* Array.isArray(x) ? x : []
ListOrEmpty(val) == IF IsArray(val) THEN val ELSE JArr(<<>>)

\* the object of lines 442-462; analysisTime is a reading of the clock and is
\* left out of _meta
Normalize(parsed, fullText, pdf) ==
    [product |-> OrElse(Member(parsed, "product"), JStr("Unknown Product")),
     audience |-> OrElse(Member(parsed, "audience"), JStr("General audience")),
     goal |-> OrElse(Member(parsed, "goal"),
                     JStr("increase brand awareness and engagement")),
     tone |-> OrElse(Member(parsed, "tone"), JStr("engaging and professional")),
     platforms |-> NormalizePlatforms(Member(parsed, "platforms")),
     stylistics |-> OrElse(Member(parsed, "stylistics"), JStr("modern and creative")),
     location |-> OrElse(Member(parsed, "location"), JStr("GLOBAL")),
     competitors |-> ListOrEmpty(Member(parsed, "competitors")),
     keyFeatures |-> ListOrEmpty(Member(parsed, "keyFeatures")),
     painPoints |-> ListOrEmpty(Member(parsed, "painPoints")),
     budget |-> OrElse(Member(parsed, "budget"), JStr("Not specified")),
     timeline |-> OrElse(Member(parsed, "timeline"), JStr("Not specified")),
     _meta |-> [source |-> IF pdf THEN "pdf" ELSE "text",
                extractedLength |-> Len(fullText)]]

\* JSON.parse over the objects the completions of the model can carry: the
\* inverse of JSON.stringify on them, a SyntaxError (<<>>) on any other text
JsonObjects ==
    LET productChoices == {<<>>, <<JStr("AquaPure")>>, <<JNum("7")>>, <<JNull>>}
        platformChoices ==
            {<<>>, <<JArr(<<>>)>>, <<JArr(<<"LinkedIn">>)>>, <<JArr(<<"X", "Reddit">>)>>,
             <<JStr("Instagram")>>, <<JNull>>}
        competitorChoices == {<<>>, <<JArr(<<"Nalgene">>)>>, <<JStr("Nalgene")>>}
        wellTypedRest ==
            [audience |-> JStr("hikers"), goal |-> JStr("launch"), tone |-> JStr("calm"),
             stylistics |-> JStr("minimal"), location |-> JStr("US"),
             keyFeatures |-> JArr(<<"BPA free">>),
             painPoints |-> JArr(<<"plastic waste">>),
             budget |-> JStr("$10k"), timeline |-> JStr("Q3")]
        wronglyTypedRest ==
            [audience |-> JArr(<<"hikers">>), goal |-> JNull, tone |-> JStr(""),
             stylistics |-> JNum("0"), location |-> JNum("91"),
             keyFeatures |-> JStr("BPA free"), painPoints |-> JNull,
             budget |-> JNum("10000"), timeline |-> JArr(<<>>)]
    IN {Opt("product", p) @@ Opt("platforms", q) @@ Opt("competitors", c) @@ r :
           p \in productChoices, q \in platformChoices, c \in competitorChoices,
           r \in {<<>>, wellTypedRest, wronglyTypedRest}}

JsonText == [o \in JsonObjects |-> StringifyObject(o)]

JsonParse(text) ==
    LET hits == {o \in JsonObjects : JsonText[o] = text}
    IN IF hits = {} THEN <<>> ELSE <<CHOOSE o \in hits : TRUE>>

\* what the completion call did: it failed (generateContent rejected, the
\* request timed out, response.text() threw on a blocked answer) or it
\* returned a text: an object bare, fenced or amid prose, or no JSON at all
Completions ==
    LET fenced == {o \in JsonObjects : DOMAIN o \subseteq {"platforms", "competitors"}}
    IN {[failure |-> f] :
           f \in {"fetch failed", "request timed out", "response was blocked"}}
       \cup
       {[text |-> t] :
           t \in {JsonText[o] : o \in JsonObjects}
              \cup {(Fence \o "json") \o "\n" \o JsonText[o] \o "\n" \o Fence : o \in fenced}
              \cup {Fence \o "\n" \o JsonText[o] \o "\n" \o Fence : o \in fenced}
              \cup {"Here is the strategy: " \o JsonText[o] \o " Good luck!" :
                       o \in fenced}
              \cup {"", "I cannot help with that.", "{\"product\":\"AquaPure\"",
                    "{product: AquaPure}", "{}{}", "} {", (Fence \o "json") \o "\n" \o Fence}}

\* the object parsed out of a completion: <<>> when the call failed, when no
\* {...} is found, or when JSON.parse throws
ParsedCompletion(c) ==
    IF "failure" \in DOMAIN c THEN <<>>
    ELSE LET jsonMatch == MatchObject(ExtractJsonText(c.text))
         IN IF jsonMatch = <<>> THEN <<>> ELSE JsonParse(jsonMatch[1])

\* the catch block of analyzeWithGemini
FallbackOnExtractedText(prompt, fullText) == parsePromptToStrategy(fullText)

Fallback(prompt, fullText) == parsePromptToStrategy(prompt)

\* analyzeWithGemini from the completion on; prompt is a string
AnalysisResult(c, prompt, fullText, pdf) ==
    IF ParsedCompletion(c) = <<>> THEN Fallback(prompt, fullText)
    ELSE Normalize(ParsedCompletion(c)[1], fullText, pdf)

(***************************************************************************)
(* createCampaign: one request through the handler                         *)
(***************************************************************************)
\* the prompt taken from the name of the uploaded file; replace with a
\* string pattern takes out the first occurrence only, and
\* UnderscoresToSpaces is s.replace(/_/g, ' ')
PromptFromFileName(originalname) ==
    LET at == IndexOf(originalname, ".pdf")
        RECURSIVE UnderscoresToSpaces(_)
        UnderscoresToSpaces(s) ==
            IF s = "" THEN ""
            ELSE (IF Head(s) = "_" THEN " " ELSE Head(s)) \o UnderscoresToSpaces(Tail(s))
    IN UnderscoresToSpaces(
          IF at = 0 THEN originalname
          ELSE Sub(originalname, 1, at - 1) \o Sub(originalname, at + 4, Len(originalname)))

\* extractedText.length > 10
MinExtractedLength == 10

\* req.body.text is absent or a value of any type (a JSON body can carry
\* one); req.file is absent or the name of the upload with what pdfParse
\* makes of its content, <<>> when it throws and <<text>> otherwise
InitCampaign ==
    /\ campaignPc = "received"
    /\ req \in
          {Opt("text", t) :
              t \in {<<>>, <<JStr("")>>,
                     <<JStr("EcoBottle - sustainable bottle for college students")>>,
                     <<JStr("-launch")>>, <<JStr("Fun premium fitness app")>>,
                     <<JNum("42")>>, <<JNum("0")>>, <<JArr(<<"EcoBottle">>)>>}}
          \cup
          {Opt("text", t) @@ [file |-> [originalname |-> n, pdf |-> p]] :
              t \in {<<>>, <<JStr("Fun premium fitness app")>>, <<JNum("42")>>},
              n \in {"Eco_Bottle_launch.pdf", ".pdf"},
              p \in {<<>>, <<"  brief ">>, <<" AquaPure premium bottle brief ">>}}
    /\ promptText = JStr("")
    /\ inputType = "text"
    /\ fileBuffer = FALSE
    /\ fullPromptText = ""
    /\ isPDF = FALSE
    /\ completion = <<>>
    /\ strategy = <<>>
    /\ campaignRes = <<>>
    /\ OthersOff("campaign")

\* promptText after the block for text input
TextPrompt(r) == IF Truthy(Member(r, "text")) THEN r.text ELSE JStr("")

ServerError(message) ==
    [status |-> 500, success |-> FALSE, message |-> "Failed to parse prompt",
     error |-> message]

\* a request without a file, up to the call of analyzeWithGemini: 400 for no
\* usable text, the catch block when promptText has no substring method
ReceiveText ==
    /\ campaignPc = "received"
    /\ "file" \notin DOMAIN req
    /\ promptText' = TextPrompt(req)
    /\ IF ~Truthy(TextPrompt(req))
       THEN /\ campaignRes' = [status |-> 400, success |-> FALSE,
                               message |-> "Either text or PDF is required"]
            /\ campaignPc' = "responded"
            /\ UNCHANGED fullPromptText
       ELSE IF TextPrompt(req).t # "string"
       THEN /\ campaignRes' = ServerError("promptText.substring is not a function")
            /\ campaignPc' = "responded"
            /\ UNCHANGED fullPromptText
       ELSE /\ campaignPc' = "analyzing"
            /\ fullPromptText' = TextPrompt(req).v[1]
            /\ UNCHANGED campaignRes
    /\ UNCHANGED <<req, inputType, fileBuffer, isPDF, completion, strategy>>
    /\ Only("campaign")

\* a request with a file, up to the upload
ReceiveFile ==
    /\ campaignPc = "received"
    /\ "file" \in DOMAIN req
    /\ promptText' = TextPrompt(req)
    /\ fileBuffer' = TRUE
    /\ campaignPc' = "uploading"
    /\ UNCHANGED <<req, inputType, fullPromptText, isPDF, completion, strategy, campaignRes>>
    /\ Only("campaign")

\* bucket.upload rejects or unlinkSync throws
StorageFails ==
    /\ campaignPc = "uploading"
    /\ campaignRes' = ServerError("storage")
    /\ campaignPc' = "responded"
    /\ UNCHANGED <<req, promptText, inputType, fileBuffer, fullPromptText, isPDF,
                   completion, strategy>>
    /\ Only("campaign")

\* the upload succeeds; the handler goes on into analyzeWithGemini
Uploaded ==
    /\ campaignPc = "uploading"
    /\ promptText' = JStr(PromptFromFileName(req.file.originalname))
    /\ inputType' = "pdf"
    /\ fullPromptText' = PromptFromFileName(req.file.originalname)
    /\ campaignPc' = "extracting"
    /\ UNCHANGED <<req, fileBuffer, isPDF, completion, strategy, campaignRes>>
    /\ Only("campaign")

\* pdfParse settles
ExtractPdf ==
    /\ campaignPc = "extracting"
    /\ LET extractedText == IF req.file.pdf = <<>> THEN "" ELSE Trim(req.file.pdf[1])
       IN IF Len(extractedText) > MinExtractedLength
          THEN fullPromptText' = extractedText /\ isPDF' = TRUE
          ELSE UNCHANGED <<fullPromptText, isPDF>>
    /\ campaignPc' = "analyzing"
    /\ UNCHANGED <<req, promptText, inputType, fileBuffer, completion, strategy, campaignRes>>
    /\ Only("campaign")

\* the completion call settles and analyzeWithGemini returns
Complete ==
    /\ campaignPc = "analyzing"
    /\ \E c \in Completions :
        /\ completion' = c
        /\ strategy' = AnalysisResult(c, promptText.v[1], fullPromptText, isPDF)
    /\ campaignPc' = "analyzed"
    /\ UNCHANGED <<req, promptText, inputType, fileBuffer, fullPromptText, isPDF, campaignRes>>
    /\ Only("campaign")

\* res.status(200).json(...); the timings are readings of the clock and are
\* left out
RespondCampaign ==
    /\ campaignPc = "analyzed"
    /\ campaignRes' =
        [status |-> 200, success |-> TRUE,
         input |-> [type |-> inputType, originalPrompt |-> promptText]
                    @@ (IF "_meta" \in DOMAIN strategy
                        THEN [extractedLength |-> strategy._meta.extractedLength]
                        ELSE <<>>),
         strategy |-> [k \in {strategyFields[i] : i \in 1..Len(strategyFields)} |->
                          Member(strategy, k)],
         analyzed_by |-> "gemini-2.5-flash",
         performance |-> IF "_meta" \in DOMAIN strategy
                         THEN [source |-> strategy._meta.source] ELSE <<>>]
    /\ campaignPc' = "responded"
    /\ UNCHANGED <<req, promptText, inputType, fileBuffer, fullPromptText, isPDF,
                   completion, strategy>>
    /\ Only("campaign")

SpecCampaign ==
    InitCampaign /\ [][ReceiveText \/ ReceiveFile \/ StorageFails \/ Uploaded \/
                         ExtractPdf \/ Complete \/ RespondCampaign]_vars

\* analyzeWithGemini has returned
Analyzed == completion # <<>>

\* C4: every strategy analyzeWithGemini returns, from a parsed completion
\* with members missing or of the wrong type or from the fallback parser, has
\* all twelve members defined, platforms a non-empty list, and competitors,
\* keyFeatures and painPoints lists.
StrategyComplete ==
    Analyzed =>
        /\ \A i \in 1..Len(strategyFields) :
              /\ strategyFields[i] \in DOMAIN strategy
              /\ strategy[strategyFields[i]].t # "undefined"
        /\ strategy.platforms.t = "array"
        /\ Len(strategy.platforms.v) > 0
        /\ \A k \in {"competitors", "keyFeatures", "painPoints"} :
              strategy[k].t = "array"

\* a completion without product and with keyFeatures and competitors that
\* are strings was parsed and normalized
StrategyCompleteWitness ==
    /\ Analyzed
    /\ ParsedCompletion(completion) # <<>>
    /\ "product" \notin DOMAIN ParsedCompletion(completion)[1]
    /\ Member(ParsedCompletion(completion)[1], "keyFeatures") = JStr("BPA free")
    /\ Member(ParsedCompletion(completion)[1], "competitors") = JStr("Nalgene")
    /\ strategy.product = JStr("Unknown Product")
    /\ strategy.keyFeatures = JArr(<<>>)

\* C5: when the completion call fails or returns a text from which no JSON
\* object is parsed, analyzeWithGemini returns parsePromptToStrategy of the
\* prompt text, and createCampaign answers 200 with success = true.
AiFailureFallsBack ==
    (Analyzed /\ ParsedCompletion(completion) = <<>>) =>
        /\ strategy = parsePromptToStrategy(promptText.v[1])
        /\ campaignPc = "responded" =>
              /\ campaignRes.status = 200
              /\ campaignRes.success = TRUE
              /\ campaignRes.strategy = parsePromptToStrategy(promptText.v[1])

\* a PDF whose text was extracted, a completion call that timed out, and the
\* answer built from the name of the file
AiFailureFallsBackWitness ==
    /\ campaignPc = "responded"
    /\ "file" \in DOMAIN req
    /\ isPDF
    /\ completion = [failure |-> "request timed out"]
    /\ campaignRes.status = 200
    /\ campaignRes.strategy.product = JStr("Eco Bottle launch")

\* the platforms member of the parsed completion, undefined when nothing
\* was parsed
AiPlatforms ==
    IF ParsedCompletion(completion) = <<>> THEN JUndefined
    ELSE Member(ParsedCompletion(completion)[1], "platforms")

\* C7: the platforms of the returned strategy are those of the completion
\* when they are a non-empty array, and Instagram, YouTube, TikTok in every
\* other case.
PlatformsRule ==
    Analyzed =>
        IF AiPlatforms.t = "array" /\ AiPlatforms.v # <<>>
        THEN strategy.platforms = AiPlatforms
        ELSE strategy.platforms = JArr(<<"Instagram", "YouTube", "TikTok">>)

\* the completion carried an empty platforms array and the answer has the
\* three defaults
PlatformsRuleWitness ==
    /\ campaignPc = "responded"
    /\ Analyzed
    /\ AiPlatforms = JArr(<<>>)
    /\ campaignRes.strategy.platforms = JArr(<<"Instagram", "YouTube", "TikTok">>)

\* C23: in the revision with auto-discovery, a non-empty competitorUrls is
\* the list analyzed; with none and autoDiscover set the list is one of
\* the four fixed ones, and when the industry contains exactly one of
\* audio, tech, fashion (in any case) it is that keyword's list, whatever
\* the brandContext.
DiscoveryByIndustry ==
    (revision = "discover" /\ urlsToAnalyze # <<>>) =>
        IF ~NoCompetitorUrls(body)
        THEN urlsToAnalyze = body.competitorUrls
        ELSE /\ Get(body, "autoDiscover", FALSE)
             /\ \E k \in DOMAIN domainMap : urlsToAnalyze = domainMap[k]
             /\ LET named == {k \in {"audio", "tech", "fashion"} :
                                Contains(ToLowerCase(StringField(body, "industry")), k)}
                IN \A k \in named : named = {k} => urlsToAnalyze = domainMap[k]

\* C17: one analyzeCompetitor request issues at most 3 scrape requests, for
\* the first three URLs of the resolved list in list order, and issues one
\* only when every earlier URL has been processed (its insight pushed), so
\* that at most one scrape is in flight.
ScrapesSequential ==
    /\ [](/\ Len(requests) <= 3
          /\ \A i \in DOMAIN requests :
                i \in DOMAIN urlsToAnalyze /\ requests[i] = urlsToAnalyze[i]
          /\ pc = "awaiting" => Len(requests) = Len(insights) + 1
          /\ pc = "loop" => Len(requests) <= Len(insights))
    /\ [][requests' # requests =>
             /\ pc = "loop" /\ pc' = "awaiting"
             /\ Len(insights) = Len(requests)
             /\ requests' = Append(requests, urlsToAnalyze[Len(requests) + 1])]_vars

ScrapesSequentialWitness ==
    /\ pc = "responded" /\ response.status = 200
    /\ urlsToAnalyze = <<"https://example.com", "HTTP://Shop.Example.org:8080/a",
                         "https://example.com", "HTTP://Shop.Example.org:8080/a">>
    /\ requests = <<"https://example.com", "HTTP://Shop.Example.org:8080/a",
                    "https://example.com">>
    /\ Len(insights) = 3

(***************************************************************************)
(* The campaign store: the Campaign collection and the three handlers of   *)
(* campaign.controller.js that write it.  A campaign's id is its position  *)
(* in the collection, its owner the user id in its field email.  Field     *)
(* values of request bodies are typed values;                              *)
(* an absent field is JUndefined.  A handler runs up to its first database *)
(* call in one step; addAgentResult reads the document in one step and     *)
(* saves it in a later one, so that other requests interleave.             *)
(***************************************************************************)
MaxStoreOps == 8

AgentEntry(r) == [agentName |-> r.agentName, result |-> r.result]

\* A save that wrote back the whole document as it was read earlier.
SaveAgentsOverwrite(persisted, read, entry) == [read EXCEPT !.agents = Append(@, entry)]

\* campaign.agents.push(...) followed by save() sends the modified path
\* only, as a $push of the new entry: it lands behind whatever the array
\* holds at that moment, and the other fields of the stored document stay.
SaveAgents(persisted, read, entry) == [persisted EXCEPT !.agents = Append(@, entry)]

\* the filter {email: req.user._id} of the two reading handlers (a query
\* without the filter is kept for comparison)
OwnsAny(campaign, user) == TRUE

Owns(campaign, user) == campaign.email = user

InitStore ==
    /\ campaigns = <<>> /\ saving = <<>> /\ storeRes = <<>>
    /\ OthersOff("store")

\* The documents, their entries and the saves under way stay within
\* MaxStoreOps: a document weighs three, an entry and a save under way two,
\* so that two documents with an entry fit as well as one with two.
StoreRoom(cost) ==
    LET RECURSIVE Held(_)
        Held(i) == IF i = 0 THEN 0 ELSE 2 * Len(campaigns[i].agents) + 3 + Held(i - 1)
    IN Held(Len(campaigns)) + 2 * Len(saving) + cost <= MaxStoreOps

\* createCampaign: 400 without text and file; 500 when the upload, the
\* read of req.user._id or Campaign.create throws; else the document is
\* stored with the user's id in email, the input, the strategy, status
\* "processing" and the schema's default agents [].
CreateCampaign ==
    /\ StoreRoom(3)
    /\ \E text \in {JUndefined, JStr(""), JStr("Launch EcoBottle")}, file \in BOOLEAN,
          throws \in BOOLEAN, user \in {"u1", "u2"} :
          IF ~Truthy(text) /\ ~file /\ ~throws
          THEN storeRes' = [status |-> 400] /\ UNCHANGED campaigns
          ELSE IF throws
          THEN storeRes' = [status |-> 500] /\ UNCHANGED campaigns
          ELSE /\ campaigns' =
                     Append(campaigns,
                            [email |-> user,
                             input |-> IF file THEN [type |-> "pdf", value |-> "pdfUrl"]
                                       ELSE [type |-> "text", value |-> text.v],
                             strategy |-> [generatedBy |-> "strategy-agent"],
                             status |-> JStr("processing"), agents |-> <<>>])
               /\ storeRes' = [status |-> 201, campaignId |-> Len(campaigns) + 1]
    /\ UNCHANGED saving
    /\ Only("store")

\* addAgentResult up to the await of save(): 400, 404, or the document
\* is read and the entry pushed on the copy in memory.
AddAgentFind ==
    /\ StoreRoom(2)
    /\ \E campaignId \in 1 .. Len(campaigns) + 1,
          agentName \in {JUndefined, JStr("copywriter")},
          result \in {JUndefined, JStr("draft"), JStr("final")} :
          IF ~Truthy(agentName) \/ ~Truthy(result)
          THEN storeRes' = [status |-> 400] /\ UNCHANGED saving
          ELSE IF campaignId \notin DOMAIN campaigns
          THEN storeRes' = [status |-> 404] /\ UNCHANGED saving
          ELSE /\ saving' = Append(saving, [id |-> campaignId, agentName |-> agentName,
                                            result |-> result,
                                            read |-> campaigns[campaignId]])
               /\ UNCHANGED storeRes
    /\ UNCHANGED campaigns
    /\ Only("store")

\* save() resolves: the entry is stored and the handler answers 200 with
\* the document it holds in memory, the one read plus the entry.
AddAgentSave ==
    \E k \in DOMAIN saving :
       LET r == saving[k]
           Settled == [i \in 1 .. Len(saving) - 1 |-> saving[IF i < k THEN i ELSE i + 1]]
       IN
       /\ campaigns' = [campaigns EXCEPT ![r.id] =
                           SaveAgents(campaigns[r.id], r.read, AgentEntry(r))]
       /\ saving' = Settled
       /\ storeRes' = [status |-> 200, campaign |-> r.id,
                       agents |-> Append(r.read.agents, AgentEntry(r))]
       /\ Only("store")

\* save() rejects (validation of the document or the database): 500.
AddAgentSaveFails ==
    \E k \in DOMAIN saving :
       /\ saving' = [i \in 1 .. Len(saving) - 1 |-> saving[IF i < k THEN i ELSE i + 1]]
       /\ storeRes' = [status |-> 500]
       /\ UNCHANGED campaigns
       /\ Only("store")

\* updateCampaignStatus: findByIdAndUpdate(campaignId, {status}, {new: true})
\* runs no validators, so the status is stored as given; a body without
\* status leaves the field alone or stores null, depending on the
\* library's handling of undefined in an update.
UpdateStatus ==
    /\ \/ storeRes' = [status |-> 500] /\ UNCHANGED campaigns      \* the update throws
       \/ \E campaignId \in 1 .. Len(campaigns) + 1,
             status \in {JUndefined, JStr("completed"), JStr("archived")} :
             IF campaignId \notin DOMAIN campaigns
             THEN storeRes' = [status |-> 404] /\ UNCHANGED campaigns
             ELSE /\ \E stored \in IF status = JUndefined THEN {status, JNull} ELSE {status} :
                        campaigns' = [campaigns EXCEPT ![campaignId].status =
                                         IF stored = JUndefined THEN @ ELSE stored]
                  /\ storeRes' = [status |-> 200, campaign |-> campaignId]
    /\ UNCHANGED saving
    /\ Only("store")

\* getMyCampaigns behind auth(): the campaigns that Campaign.find({email:
\* req.user._id}) matches, the newest first; 500 when the query rejects.
\* The response is noted with the user it went to.
GetMyCampaigns ==
    /\ \E user \in {"u1", "u2"}, throws \in BOOLEAN :
          LET RECURSIVE Found(_)
              Found(i) == IF i = 0 THEN <<>>
                          ELSE IF Owns(campaigns[i], user) THEN <<i>> \o Found(i - 1)
                          ELSE Found(i - 1)
          IN storeRes' = IF throws THEN [status |-> 500, user |-> user]
                         ELSE [status |-> 200, user |-> user,
                               campaigns |-> Found(Len(campaigns))]
    /\ UNCHANGED <<campaigns, saving>>
    /\ Only("store")

\* getCampaignById behind auth(): Campaign.findOne({_id: req.params.id,
\* email: req.user._id}); 404 when it matches nothing; 500 when it rejects,
\* as it does for an id that is no ObjectId.
GetCampaignById ==
    /\ \E user \in {"u1", "u2"}, id \in 0 .. Len(campaigns) + 1 :
          storeRes' =
             IF id = 0 THEN [status |-> 500, user |-> user]
             ELSE IF id \in DOMAIN campaigns /\ Owns(campaigns[id], user)
             THEN [status |-> 200, user |-> user, id |-> id, found |-> campaigns[id]]
             ELSE [status |-> 404, user |-> user, id |-> id,
                   message |-> "Campaign not found"]
    /\ UNCHANGED <<campaigns, saving>>
    /\ Only("store")

SpecStore ==
    InitStore /\ [][CreateCampaign \/ AddAgentFind \/ AddAgentSave \/ AddAgentSaveFails \/
                 UpdateStatus \/ GetMyCampaigns \/ GetCampaignById]_vars

\* C13: each persisted campaign's status is one of pending, processing,
\* completed, failed.
StatusInEnum ==
    \A i \in DOMAIN campaigns : campaigns[i].status \in {JStr(s) : s \in {"pending", "processing", "completed", "failed"}}

\* C14: a campaign's agents list only grows.  No step removes a campaign;
\* a new campaign starts with an empty list; a step changes the list of
\* at most one existing campaign, and only by appending the entry
\* {agentName, result} of a pending addAgentResult behind the entries
\* stored so far; and every addAgentResult that answers 200 has done so.
AgentsOnlyGrow ==
    [][/\ Len(campaigns') >= Len(campaigns)
       /\ \A i \in DOMAIN campaigns' \ DOMAIN campaigns : campaigns'[i].agents = <<>>
       /\ \A i \in DOMAIN campaigns :
             \/ campaigns'[i].agents = campaigns[i].agents
             \/ /\ \E k \in DOMAIN saving :
                      /\ saving[k].id = i
                      /\ campaigns'[i].agents =
                            Append(campaigns[i].agents, AgentEntry(saving[k]))
                /\ \A j \in DOMAIN campaigns \ {i} :
                      campaigns'[j].agents = campaigns[j].agents
       /\ AddAgentSave =>
             \E i \in DOMAIN campaigns :
                /\ storeRes'.status = 200 /\ storeRes'.campaign = i
                /\ Len(campaigns'[i].agents) = Len(campaigns[i].agents) + 1
                /\ SubSeq(campaigns'[i].agents, 1, Len(campaigns[i].agents)) =
                      campaigns[i].agents]_vars

\* Two addAgentResult requests for one campaign overlapped: the second
\* read the list before the first was saved, and both entries are stored.
AgentsOnlyGrowWitness ==
    /\ Len(campaigns) >= 1
    /\ Len(campaigns[1].agents) = 1
    /\ \E k \in DOMAIN saving : saving[k].id = 1 /\ saving[k].read.agents = <<>>
    /\ storeRes.status = 200 /\ Get(storeRes, "campaign", 0) = 1

\* C27: two addAgentResult requests for one campaign that overlap and both
\* answer with success leave both entries in the stored list, and a status
\* stored by updateCampaignStatus meanwhile stays.  A save that answers 200
\* appends its entry to the list as stored at that moment, which holds
\* every entry saved since the request read the document, and it leaves
\* the stored status as it is, whatever the status was when the document
\* was read; what a request under way has read is always a prefix of what
\* is stored.
NoLostAgentResult ==
    /\ [](\A k \in DOMAIN saving :
             LET stored == campaigns[saving[k].id].agents
             IN /\ Len(saving[k].read.agents) <= Len(stored)
                /\ SubSeq(stored, 1, Len(saving[k].read.agents)) = saving[k].read.agents)
    /\ [][AddAgentSave =>
             \E k \in DOMAIN saving :
                LET r == saving[k]
                IN /\ storeRes' = [status |-> 200, campaign |-> r.id,
                                   agents |-> Append(r.read.agents, AgentEntry(r))]
                   /\ campaigns'[r.id].agents = Append(campaigns[r.id].agents, AgentEntry(r))
                   /\ campaigns'[r.id].status = campaigns[r.id].status]_vars

\* The second of two overlapping requests has answered: it had read the
\* empty list, the list holds both entries, and the status that was
\* updated after the read is still stored.
NoLostAgentResultWitness ==
    /\ Len(campaigns) = 1
    /\ storeRes.status = 200
    /\ Get(storeRes, "agents", <<>>) = <<[agentName |-> JStr("copywriter"), result |-> JStr("final")]>>
    /\ campaigns[1].agents = <<[agentName |-> JStr("copywriter"), result |-> JStr("draft")],
                               [agentName |-> JStr("copywriter"), result |-> JStr("final")]>>
    /\ campaigns[1].status = JStr("completed")

\* C29: getMyCampaigns and getCampaignById return no campaign of another
\* owner.  getMyCampaigns answers with exactly the campaigns whose owner is
\* the user; getCampaignById answers 200 only with a campaign of the user,
\* and for a campaign of somebody else 404 with the message that an id of
\* no campaign gets.
OnlyOwnCampaigns ==
    /\ "campaigns" \in DOMAIN storeRes =>
          /\ {storeRes.campaigns[j] : j \in DOMAIN storeRes.campaigns} =
                {i \in DOMAIN campaigns : campaigns[i].email = storeRes.user}
          /\ \A j \in DOMAIN storeRes.campaigns, k \in DOMAIN storeRes.campaigns :
                j < k => storeRes.campaigns[j] > storeRes.campaigns[k]
    /\ "found" \in DOMAIN storeRes =>
          /\ storeRes.found = campaigns[storeRes.id]
          /\ storeRes.found.email = storeRes.user
    /\ ("user" \in DOMAIN storeRes /\ "id" \in DOMAIN storeRes) =>
          IF storeRes.id \in DOMAIN campaigns /\ campaigns[storeRes.id].email = storeRes.user
          THEN storeRes.status = 200
          ELSE storeRes = [status |-> 404, user |-> storeRes.user, id |-> storeRes.id,
                           message |-> "Campaign not found"]

\* u2 asked for the campaign of u1 and got 404; u1 owns campaign 1 of two
OnlyOwnCampaignsWitness ==
    /\ Len(campaigns) = 2
    /\ campaigns[1].email = "u1" /\ campaigns[2].email = "u2"
    /\ storeRes = [status |-> 404, user |-> "u2", id |-> 1, message |-> "Campaign not found"]

OnlyOwnCampaignsListWitness ==
    /\ Len(campaigns) = 2
    /\ campaigns[1].email = "u1" /\ campaigns[2].email = "u2"
    /\ storeRes = [status |-> 200, user |-> "u1", campaigns |-> <<1>>]

\* C30: a campaign mutation changes what it names and nothing else.  A
\* step that answers 400 or 404 leaves the collection as it is; a save of
\* addAgentResult changes the agents list of its campaign only; an
\* updateCampaignStatus that answers 200 changes the status of its
\* campaign only.
MutationsFramed ==
    [][/\ (storeRes' # storeRes /\ storeRes'.status \in {400, 404}) => campaigns' = campaigns
       /\ AddAgentSave =>
             /\ Len(campaigns') = Len(campaigns)
             /\ \A i \in DOMAIN campaigns :
                   IF i = storeRes'.campaign
                   THEN /\ campaigns'[i].agents # campaigns[i].agents
                        /\ \A f \in {"email", "input", "strategy", "status"} :
                              campaigns'[i][f] = campaigns[i][f]
                   ELSE campaigns'[i] = campaigns[i]
       /\ (UpdateStatus /\ storeRes'.status = 200) =>
             /\ Len(campaigns') = Len(campaigns)
             /\ \A i \in DOMAIN campaigns :
                   IF i = storeRes'.campaign
                   THEN \A f \in {"email", "input", "strategy", "agents"} :
                           campaigns'[i][f] = campaigns[i][f]
                   ELSE campaigns'[i] = campaigns[i]]_vars

\* of two campaigns the second was set to completed and then got an entry;
\* the first is as it was created
MutationsFramedWitness ==
    /\ Len(campaigns) = 2
    /\ campaigns[1].agents = <<>> /\ campaigns[1].status = JStr("processing")
    /\ campaigns[2].status = JStr("completed")
    /\ Len(campaigns[2].agents) = 1
    /\ storeRes.status = 200 /\ Get(storeRes, "campaign", 0) = 2
    /\ "agents" \in DOMAIN storeRes

(***************************************************************************)
(* postToInstagram and waitForContainerReady (instagram.controller.js).    *)
(* Each await is a point where the handler rests: the container request,   *)
(* a status request, a delay, the publish request.  statusChecks, delays   *)
(* and publishes count what has been sent or waited; lastStatus is what    *)
(* the last status check reported ("rejected" when the request failed).    *)
(***************************************************************************)
maxAttempts == 10

\* Line 107: statusCode === 'FINISHED' ends the wait (a loop that took
\* every status but ERROR for readiness is kept for comparison).
ReadyUnlessError(statusCode) == statusCode # "ERROR"

Ready(statusCode) == statusCode = "FINISHED"

\* Lines 117 and 122: the delay follows an attempt only if
\* attempt < maxAttempts (a loop that waited after every attempt is kept
\* for comparison).
WaitsAfterEvery(n) == TRUE

WaitsAfter(n) == n < maxAttempts

InitIg ==
    /\ igPc = "received"
    /\ igReq \in [image_url : {JUndefined, JStr(""), JStr("https://cdn.example.com/a.jpg")},
                  caption : {JUndefined, JStr("New arrivals")},
                  IG_ACCESS_TOKEN : {"", "IGQVJ"}]
    /\ containerCreated = FALSE /\ attempt = 0 /\ statusChecks = 0 /\ delays = 0
    /\ lastStatus = "" /\ errorAt = 0 /\ publishes = 0 /\ igRes = <<>>
    /\ OthersOff("ig")

\* lines 13-39: the two checks, then the container request is sent
IgValidate ==
    /\ igPc = "received"
    /\ IF ~Truthy(igReq.image_url)
       THEN igPc' = "responded" /\ igRes' = [status |-> 400, msg |-> "Image URL is required"]
       ELSE IF igReq.IG_ACCESS_TOKEN = ""
       THEN igPc' = "responded" /\ igRes' = [status |-> 500, msg |-> "not configured"]
       ELSE igPc' = "creating" /\ UNCHANGED igRes
    /\ UNCHANGED <<containerCreated, attempt, statusChecks, delays, lastStatus, errorAt,
                   publishes>>
    /\ UNCHANGED igReq
    /\ Only("ig")

\* The for statement's test before the body: another status request, or
\* the throw of line 128, which the catch of postToInstagram answers with
\* error.response?.status || 500.
LoopTest(n) ==
    IF n <= maxAttempts
    THEN /\ attempt' = n /\ statusChecks' = statusChecks + 1 /\ igPc' = "checking"
         /\ UNCHANGED igRes
    ELSE /\ attempt' = n /\ UNCHANGED statusChecks /\ igPc' = "responded"
         /\ igRes' = [status |-> 500, msg |-> "Media container did not become ready in time. Please try again later."]

\* The container request settles.  Rejected (axios rejects when there is
\* no response or its status is not 2xx): the catch answers.  Fulfilled:
\* containerResponse.data.id is read, which throws when data is null, and
\* waitForContainerReady starts with attempt 1.
ContainerSettles ==
    /\ igPc = "creating"
    /\ \E outcome \in {"created", "no data", "no response", "400", "500"} :
          IF outcome = "created"
          THEN /\ containerCreated' = TRUE
               /\ LoopTest(1)
          ELSE /\ containerCreated' = (outcome = "no data")
               /\ igPc' = "responded"
               /\ igRes' = [status |-> IF outcome = "400" THEN 400 ELSE 500, msg |-> outcome]
               /\ UNCHANGED <<attempt, statusChecks>>
    /\ UNCHANGED <<delays, lastStatus, errorAt, publishes>>
    /\ UNCHANGED igReq
    /\ Only("ig")

\* A status request settles (lines 94-126).  FINISHED returns true and the
\* publish request is sent.  The throw for ERROR is inside the try, so
\* the catch of the loop takes it like a rejected request; every other
\* outcome ends the iteration with a delay if attempt < maxAttempts.
StatusSettles ==
    /\ igPc = "checking"
    /\ \E statusCode \in {"FINISHED", "ERROR", "IN_PROGRESS", "EXPIRED", "rejected"} :
          /\ lastStatus' = statusCode
          /\ errorAt' = IF statusCode = "ERROR" /\ errorAt = 0 THEN attempt ELSE errorAt
          /\ IF statusCode # "rejected" /\ Ready(statusCode)
             THEN /\ igPc' = "publishing" /\ publishes' = publishes + 1
                  /\ UNCHANGED <<attempt, statusChecks, delays, igRes>>
             ELSE IF WaitsAfter(attempt)
             THEN /\ igPc' = "delaying" /\ delays' = delays + 1
                  /\ UNCHANGED <<attempt, statusChecks, publishes, igRes>>
             ELSE /\ LoopTest(attempt + 1)
                  /\ UNCHANGED <<delays, publishes>>
    /\ UNCHANGED containerCreated
    /\ UNCHANGED igReq
    /\ Only("ig")

\* the timer of lines 118 and 123 fires: attempt++ and the loop's test
DelayElapses ==
    /\ igPc = "delaying"
    /\ LoopTest(attempt + 1)
    /\ UNCHANGED <<containerCreated, delays, lastStatus, errorAt, publishes>>
    /\ UNCHANGED igReq
    /\ Only("ig")

\* the publish request settles (lines 50-83)
PublishSettles ==
    /\ igPc = "publishing"
    /\ igPc' = "responded"
    /\ \E outcome \in {"published", "no response", "400", "500"} :
          igRes' = IF outcome = "published"
                   THEN [status |-> 200, msg |-> "Successfully posted to Instagram"]
                   ELSE [status |-> IF outcome = "400" THEN 400 ELSE 500, msg |-> outcome]
    /\ UNCHANGED <<containerCreated, attempt, statusChecks, delays, lastStatus, errorAt,
                   publishes>>
    /\ UNCHANGED igReq
    /\ Only("ig")

SpecIg ==
    InitIg /\ [][IgValidate \/ ContainerSettles \/ StatusSettles \/ DelayElapses
                    \/ PublishSettles]_vars

\* every request to the Graph API settles and every timer fires
SpecIgFair ==
    SpecIg /\ WF_vars(ContainerSettles) /\ WF_vars(StatusSettles) /\ WF_vars(DelayElapses)
           /\ WF_vars(PublishSettles)

\* waitForContainerReady has returned true / has thrown
WaitSucceeded == publishes > 0
WaitFailed == igPc = "responded" /\ statusChecks > 0 /\ publishes = 0

\* C16: waitForContainerReady sends at most maxAttempts (10) status
\* requests, waits only between two consecutive checks (never before the
\* first, never after the last), and terminates: with success only when a
\* check reported FINISHED, otherwise with the timeout error once all ten
\* checks are spent.
WaitBounded ==
    /\ [](/\ statusChecks <= 10
          /\ igPc = "checking" => delays = statusChecks - 1
          /\ igPc = "delaying" => delays = statusChecks /\ statusChecks < 10
          /\ WaitSucceeded => lastStatus = "FINISHED" /\ delays = statusChecks - 1
          /\ WaitFailed =>
                /\ lastStatus # "FINISHED"
                /\ statusChecks = 10 /\ delays = 9
                /\ igRes = [status |-> 500, msg |-> "Media container did not become ready in time. Please try again later."])
    /\ (igPc = "checking") ~> (WaitSucceeded \/ WaitFailed)

WaitBoundedWitness ==
    /\ WaitFailed
    /\ statusChecks = 10 /\ delays = 9
    /\ lastStatus = "rejected" /\ errorAt = 3
    /\ igRes.msg = "Media container did not become ready in time. Please try again later."

\* C18: the publish request is sent at most once, and only after the
\* container request succeeded and a status check returned FINISHED; when
\* the container request or waitForContainerReady fails nothing is
\* published and the client gets a status outside 200..299.
PublishOnlyWhenReady ==
    /\ [](/\ publishes <= 1
          /\ publishes = 1 =>
                containerCreated /\ statusChecks >= 1 /\ lastStatus = "FINISHED"
          /\ (igPc = "responded" /\ Truthy(igReq.image_url) /\ igReq.IG_ACCESS_TOKEN # ""
                /\ (~containerCreated \/ WaitFailed))
             => publishes = 0 /\ igRes.status \notin 200 .. 299)
    /\ [][publishes' # publishes =>
             /\ igPc = "checking" /\ containerCreated
             /\ publishes = 0 /\ publishes' = 1 /\ lastStatus' = "FINISHED"]_vars

PublishOnlyWhenReadyWitness ==
    /\ igPc = "responded" /\ containerCreated /\ publishes = 1
    /\ statusChecks = 3 /\ delays = 2 /\ lastStatus = "FINISHED"
    /\ igRes.status = 200

\* C19: once a status check has reported ERROR, polling has stopped at
\* that attempt: no further check, no further delay, and the function has
\* failed with 'Media container processing failed'.
ErrorStopsPolling ==
    errorAt # 0 =>
       /\ statusChecks = errorAt /\ delays = errorAt - 1
       /\ igPc = "responded" /\ igRes.msg = "Media container processing failed"

(***************************************************************************)
(* handleAnalyze: the browser-side port of analyzeCompetitor (revision     *)
(* with auto-discovery), run on the same brand context, industry, URL list *)
(* and scrape outcomes as the server handler.  A scrape outcome is <<>>    *)
(* for a failed request and <<doc>> for a page.  Each handler runs its     *)
(* loop to the end in one step: the outcomes are given.                    *)
(***************************************************************************)
MaxPortUrls == 2

\* The port of extractInsights to DOMParser.  Its statements are those of
\* the server, with querySelectorAll for $, but for the title, read from
\* the first title element only, and the pricing indicators, searched in
\* every element of the document, html, head and body included (their
\* text is that of the elements they hold; the documents here nest none).
extractInsightsPort(doc, brandContext) ==
    LET titles == Select(doc, "title")
        inHead == SelectSeq(doc, LAMBDA el : ~Matches("body *", el))
        inBody == Select(doc, "body *")
        Texts(els) == [i \in 1..Len(els) |-> els[i].text]
        allElements ==
            <<Join(Texts(inHead), "") \o Join(Texts(inBody), ""), Join(Texts(inHead), "")>>
               \o Texts(inHead) \o <<Join(Texts(inBody), "")>> \o Texts(inBody)
        priced == SelectSeq(allElements, MatchesPrice)
        pricingIndicators ==
            FirstSeen(SelectSeq([i \in 1..Len(priced) |-> Slice0(Trim(priced[i]), 100)],
                                LAMBDA t : t # ""))
    IN {[a EXCEPT !.title = IF titles = <<>> THEN "" ELSE Trim(titles[1].text),
                  !.pricingInfo = Slice0(pricingIndicators, 5)] :
           a \in extractInsights(doc, brandContext)}

InitPort ==
    LET urls == SeqsUpTo({"https://www.sony.com", "https://www.bose.com", "not a url"},
                         MaxPortUrls)
        pages == { <<>>,
                   << Element("title", "", "Acme Audio"),
                      Element("p", "", "We sell data packs for $5 each"),
                      Element("button", "", "Start your free trial") >> }
        outcomes == {<<>>} \cup {<<doc>> : doc \in pages}
    IN /\ portIn \in {[brandContext |-> "EcoBottle", industry |-> "audio", urls |-> u,
                       scrapes |-> o] :
                         u \in urls, o \in SeqsUpTo(outcomes, MaxPortUrls)}
       /\ portIn.urls # <<>>     \* both handlers replace or refuse an empty list
       /\ Len(portIn.scrapes) = Len(portIn.urls)
       /\ serverOut = <<>> /\ browserOut = <<>>
       /\ OthersOff("port")

\* analyzeCompetitor with a configured key: lines 43-104 of the handler
ServerAnalyze ==
    LET b == [brandContext |-> portIn.brandContext, industry |-> portIn.industry]
        urls == Slice0(portIn.urls, MaxCompetitors)
        Analysis(scraped) ==
            IF scraped = <<>> THEN Null
            ELSE CHOOSE a \in extractInsights(scraped[1], portIn.brandContext) : TRUE
        RECURSIVE Loop(_, _)
        Loop(i, pushedSoFar) ==
            IF i > Len(urls)
            THEN [insights |-> pushedSoFar,
                  recommendations |->
                      generateRecommendations(pushedSoFar, portIn.brandContext)]
            ELSE LET pushed == Iteration("discover", urls[i], portIn.scrapes[i],
                                         Analysis(portIn.scrapes[i]), b)
                 IN IF pushed = <<>> THEN [error |-> "Invalid URL"]
                    ELSE Loop(i + 1, pushedSoFar \o pushed)
    IN /\ serverOut = <<>>
       /\ serverOut' = Loop(1, <<>>)
       /\ UNCHANGED <<portIn, browserOut>>
       /\ Only("port")

\* handleAnalyze, lines 454-511: a page is analyzed with the port of
\* extractInsights; a failed scrape gets the mock and keeps the error; the
\* recommendations are those of the port of generateRecommendations, which
\* differs from the server's in the text of the sentinel.
BrowserAnalyze ==
    LET urls == Slice0(portIn.urls, MaxCompetitors)
        Pushed(url, scraped) ==
            IF scraped = <<>>
            THEN MockedInsight(url,
                     generateIntelligentMock(url, portIn.brandContext, portIn.industry),
                     "Scraping failed for " \o url)
            ELSE ScrapedInsight(url,
                     CHOOSE a \in extractInsightsPort(scraped[1], portIn.brandContext) : TRUE)
        RECURSIVE Loop(_, _)
        Loop(i, pushedSoFar) ==
            IF i > Len(urls)
            THEN [insights |-> pushedSoFar,
                  recommendations |->
                      IF NoValidInsights(pushedSoFar)
                      THEN <<[string |->
                                "Unable to generate recommendations due to analysis errors"]>>
                      ELSE generateRecommendations(pushedSoFar, portIn.brandContext)]
            ELSE IF ~UrlParses(urls[i]) THEN [error |-> "Invalid URL"]
            ELSE Loop(i + 1, Append(pushedSoFar, Pushed(urls[i], portIn.scrapes[i])))
    IN /\ browserOut = <<>>
       /\ browserOut' = Loop(1, <<>>)
       /\ UNCHANGED <<portIn, serverOut>>
       /\ Only("port")

SpecPort == InitPort /\ [][ServerAnalyze \/ BrowserAnalyze]_vars

\* C24: on the same brand context, industry, URLs and scrape outcomes the
\* server handler and its browser port give, URL by URL, the same
\* analysis and the same validity of the insight (an insight with the mock
\* in place of a failed scrape is valid), and the same recommendations.
PortEquivalent ==
    (serverOut # <<>> /\ browserOut # <<>>) =>
       IF "error" \in DOMAIN serverOut \/ "error" \in DOMAIN browserOut
       THEN "error" \in DOMAIN serverOut /\ "error" \in DOMAIN browserOut
       ELSE /\ Len(serverOut.insights) = Len(browserOut.insights)
            /\ \A i \in DOMAIN serverOut.insights :
                  /\ serverOut.insights[i].analysis = browserOut.insights[i].analysis
                  /\ IsValidInsight(serverOut.insights[i])
                  /\ IsValidInsight(browserOut.insights[i])
            /\ serverOut.recommendations = browserOut.recommendations

(***************************************************************************)
(* The routes and the auth middleware.  auth.middleware.js exports the     *)
(* factory authMiddleware(options), which returns the middleware proper.   *)
(* The campaign routes register what the factory returns, auth() and       *)
(* auth({ optional: true }); the competitor and the instagram routes       *)
(* register the factory itself.  Express calls whatever was registered     *)
(* with (req, res, next) and does nothing with what the call returns.      *)
(* authRes counts the calls of next, lists the responses sent (by the      *)
(* middleware or by the handler behind it) and holds req.user.             *)
(***************************************************************************)
AuthRoutes ==
    [r \in {"POST /api/competitors/analyze", "POST /api/instagram/post"} |->
        [registered |-> "authMiddleware"]]
    @@ [r \in {"GET /api/campaigns", "GET /api/campaigns/:id"} |->
        [registered |-> "authMiddleware(options)", options |-> <<>>]]
    @@ [r \in {"POST /api/campaigns/upload-prompt"} |->
        [registered |-> "authMiddleware(options)", options |-> [optional |-> TRUE]]]

\* jwt.verify(token, SECRET_KEY): the payload of a token signed with the
\* key, in a one-element sequence, or <<>> when it throws.  Three tokens
\* are signed here; every other text is not a valid token.
jwtVerify(token) ==
    CASE token = "t.u1"   -> << [id |-> "u1"] >>
      [] token = "t.u2"   -> << [id |-> "u2"] >>
      [] token = "t.noid" -> << [iat |-> 1] >>
      [] OTHER            -> <<>>

IsOptionalAlways(options) == TRUE

\* options.optional
IsOptional(options) == Get(options, "optional", FALSE)

\* if (options.optional) return next(); return res.status(401).json({ msg })
Refuse(options, msg, res) ==
    IF IsOptional(options)
    THEN [res EXCEPT !.next = @ + 1]
    ELSE [res EXCEPT !.sent = Append(@, [by |-> "auth", status |-> 401, msg |-> msg])]

InitAuth ==
    /\ authReq \in
         {[route |-> r, headers |-> h, users |-> u] :
             r \in DOMAIN AuthRoutes,
             h \in {<<>>} \cup {[authorization |-> a] :
                                  a \in {"", "Bearer ", "Bearer  t.u1", "Basic t.u1", "bearer t.u1",
                                         "Bearer t.u1", "Bearer t.u2", "Bearer t.noid",
                                         "Bearer t.forged", "Bearer t.u1 t.forged"}},
             u \in {{}, {"u1"}, {"u1", "u2"}}}
    /\ authPc = "received"
    /\ authRes = [next |-> 0, sent |-> <<>>, user |-> <<>>]
    /\ OthersOff("auth")

\* router.post('/analyze', authMiddleware, analyzeCompetitor): Express calls
\* authMiddleware(req, res, next).  The request lands in options, the call
\* returns a new function that nobody calls, and neither next nor res is
\* touched: the request stays open.
FactoryCalled ==
    /\ authPc = "received"
    /\ AuthRoutes[authReq.route].registered = "authMiddleware"
    /\ authPc' = "open"
    /\ UNCHANGED <<authReq, authRes>>
    /\ Only("auth")

\* authHeader.split(' ')[1] of a header that starts with 'Bearer ', and ""
\* (no token) for every other header
BearerToken(authHeader) ==
    LET rest == Sub(authHeader, 8, Len(authHeader))
    IN IF Sub(authHeader, 1, 7) # "Bearer " THEN ""
       ELSE IF \E i \in 1 .. Len(rest) : CharAt(rest, i) = " "
       THEN Sub(rest, 1, (CHOOSE i \in 1 .. Len(rest) :
                             /\ CharAt(rest, i) = " "
                             /\ \A j \in 1 .. i - 1 : CharAt(rest, j) # " ") - 1)
       ELSE rest

\* the middleware proper, up to the await of User.findById (lines 6-38, 49-55)
MiddlewareRuns ==
    /\ authPc = "received"
    /\ AuthRoutes[authReq.route].registered = "authMiddleware(options)"
    /\ LET options == AuthRoutes[authReq.route].options
           token == BearerToken(Get(authReq.headers, "authorization", ""))
           Refused(msg) == /\ authRes' = Refuse(options, msg, authRes)
                           /\ authPc' = (IF IsOptional(options) THEN "handler" ELSE "done")
       IN IF token = "" THEN Refused("No token, authorization denied")
          ELSE IF jwtVerify(token) = <<>> THEN Refused("Token is not valid")
          ELSE IF "id" \notin DOMAIN jwtVerify(token)[1] THEN Refused("Invalid token")
          ELSE authPc' = "finding" /\ UNCHANGED authRes
    /\ UNCHANGED authReq
    /\ Only("auth")

\* await User.findById(decoded.id) settles: with the user, with null, or
\* with a rejection that the catch of line 49 takes (lines 38-55)
FindSettles ==
    /\ authPc = "finding"
    /\ LET options == AuthRoutes[authReq.route].options
           id == jwtVerify(BearerToken(authReq.headers.authorization))[1].id
       IN \E settled \in {"fulfilled", "rejected"} :
             IF settled = "rejected"
             THEN /\ authRes' = Refuse(options, "Token is not valid", authRes)
                  /\ authPc' = (IF IsOptional(options) THEN "handler" ELSE "done")
             ELSE IF id \notin authReq.users
             THEN /\ authRes' = Refuse(options, "User not found", authRes)
                  /\ authPc' = (IF IsOptional(options) THEN "handler" ELSE "done")
             ELSE /\ authRes' = [authRes EXCEPT !.user = <<id>>, !.next = @ + 1]
                  /\ authPc' = "handler"
    /\ UNCHANGED authReq
    /\ Only("auth")

\* what next() leads to: the handler of the route, which sends one response
\* on each of its paths (upload.single, where registered, hands on to the
\* handler or to the error handler of Express, which responds 500)
HandlerResponds ==
    /\ authPc = "handler"
    /\ \E status \in {200, 201, 400, 404, 500} :
          authRes' = [authRes EXCEPT !.sent = Append(@, [by |-> "handler", status |-> status])]
    /\ authPc' = "done"
    /\ UNCHANGED authReq
    /\ Only("auth")

SpecAuth ==
    InitAuth /\ [][FactoryCalled \/ MiddlewareRuns \/ FindSettles \/ HandlerResponds]_vars

\* Every step that is enabled is taken in the end: the event loop runs the
\* registered function, the promise of findById settles, the handler ends.
SpecAuthFair ==
    /\ SpecAuth
    /\ WF_vars(FactoryCalled) /\ WF_vars(MiddlewareRuns)
    /\ WF_vars(FindSettles) /\ WF_vars(HandlerResponds)

\* C25: every request to POST /api/competitors/analyze and to POST
\* /api/instagram/post, through the middleware as the route registers it,
\* is answered in the end, and by one response only.
EveryRequestAnswered ==
    /\ [](authReq.route \in {"POST /api/competitors/analyze", "POST /api/instagram/post"}
             => <>(Len(authRes.sent) = 1))
    /\ [](Len(authRes.sent) <= 1)

\* C28: the middleware that authMiddleware(options) builds calls next or
\* sends 401, one of the two and once; without the optional flag next is
\* called only for a header with a Bearer token that verifies, carries an
\* id and names a user of the store, and req.user is then that user; with
\* the flag next is always called, 401 never sent, and req.user is set in
\* the same case of a valid token only.
AuthExactlyOne ==
    LET route == AuthRoutes[authReq.route]
        denied == Len(SelectSeq(authRes.sent, LAMBDA r : r.by = "auth"))
        passed == authPc \in {"handler", "done"}
        header == Get(authReq.headers, "authorization", "")
        Names(u) == \/ header = "Bearer t." \o u
                    \/ Sub(header, 1, 12) = "Bearer t." \o u \o " "
        valid == \E u \in authReq.users : Names(u)
    IN route.registered = "authMiddleware(options)" =>
          /\ authRes.next + denied <= 1
          /\ passed => authRes.next + denied = 1
          /\ \A r \in 1 .. Len(authRes.sent) :
                authRes.sent[r].by = "auth" => authRes.sent[r].status = 401
          /\ ~Get(route.options, "optional", FALSE) =>
                (authRes.next = 1 => valid /\ authRes.user # <<>>)
          /\ Get(route.options, "optional", FALSE) =>
                denied = 0 /\ (passed => authRes.next = 1)
          /\ authRes.user # <<>> =>
                /\ authRes.user[1] \in authReq.users
                /\ Names(authRes.user[1])
                /\ authRes.next = 1

AuthExactlyOneWitness ==
    /\ authReq.route = "GET /api/campaigns/:id"
    /\ authPc = "done"
    /\ authRes.user = <<"u1">>
    /\ authRes.next = 1

(***************************************************************************)
(* login with loginType OTP and verifyLoginOTP, for one registered user.   *)
(* The OTP collection is a sequence of documents in order of creation; a   *)
(* document removed by deleteMany keeps its place with live = FALSE, so    *)
(* that a document is known by its index.  Every await is a point where    *)
(* another request may run: a request under way stands in otpFlight.       *)
(* A response is [kind, status, doc], doc being the OTP document that a    *)
(* verification found, 0 for none.                                         *)
(***************************************************************************)
MaxOtpOps == 4

InitOtp ==
    /\ otps = <<>> /\ otpFlight = <<>> /\ otpRes = <<>>
    /\ OthersOff("otp")

\* login, loginType OTP, up to the await of deleteMany: the unused LOGIN
\* OTPs of the email are removed
LoginDeletes ==
    /\ Len(otpRes) + Len(otpFlight) < MaxOtpOps
    /\ otps' = [d \in DOMAIN otps |-> IF otps[d].used THEN otps[d]
                                      ELSE [otps[d] EXCEPT !.live = FALSE]]
    /\ otpFlight' = Append(otpFlight, [kind |-> "login"])
    /\ UNCHANGED otpRes
    /\ Only("otp")

\* OTP.create with a fresh code, sendOTPEmail, and the response
LoginCreates ==
    \E f \in DOMAIN otpFlight, otp \in {"111111", "222222"}, sent \in BOOLEAN :
       /\ otpFlight[f].kind = "login"
       /\ otps' = Append(otps, [otp |-> otp, used |-> FALSE, live |-> TRUE, expired |-> FALSE])
       /\ otpFlight' = SubSeq(otpFlight, 1, f - 1) \o SubSeq(otpFlight, f + 1, Len(otpFlight))
       /\ otpRes' = Append(otpRes, [kind |-> "login", status |-> IF sent THEN 200 ELSE 500,
                                    doc |-> 0])
       /\ Only("otp")

\* ten minutes pass for an OTP (expiresAt), before the TTL index removes it
OtpExpires ==
    \E d \in DOMAIN otps :
       /\ otps[d].live /\ ~otps[d].expired
       /\ otps' = [otps EXCEPT ![d].expired = TRUE]
       /\ UNCHANGED <<otpFlight, otpRes>>
       /\ Only("otp")

\* verifyLoginOTP up to the await of User.findOne.  OTP.findOne({email,
\* otp, purpose: "LOGIN", used: false, expiresAt: {$gt: Date.now()}})
\* returns a document that matches, or null: 400 when no document
\* matches, else the document is held while the user is read.
VerifyFinds ==
    \E otp \in {"111111", "222222"} :
       LET matches == {d \in DOMAIN otps : /\ otps[d].live /\ otps[d].otp = otp
                                           /\ ~otps[d].used /\ ~otps[d].expired}
       IN
       /\ Len(otpRes) + Len(otpFlight) < MaxOtpOps
       /\ IF matches = {}
          THEN /\ otpRes' = Append(otpRes, [kind |-> "verify", status |-> 400, doc |-> 0])
               /\ UNCHANGED otpFlight
          ELSE /\ \E d \in matches :
                     otpFlight' = Append(otpFlight, [kind |-> "verify", doc |-> d])
               /\ UNCHANGED otpRes
       /\ UNCHANGED otps
       /\ Only("otp")

\* otpDoc.used = true; await otpDoc.save(); the token and the response.
\* save() sends updateOne({_id}, {$set: {used: true}}), whatever used has
\* become in the store; when the document is gone it matches nothing, and
\* then save() rejects or not, by the version of the library.
VerifySaves ==
    \E f \in DOMAIN otpFlight :
       /\ otpFlight[f].kind = "verify"
       /\ LET d == otpFlight[f].doc
          IN \E rejects \in BOOLEAN :
                /\ rejects => ~otps[d].live
                /\ otps' = IF otps[d].live THEN [otps EXCEPT ![d].used = TRUE] ELSE otps
                /\ otpRes' = Append(otpRes, [kind |-> "verify", doc |-> d,
                                             status |-> IF rejects THEN 500 ELSE 200])
       /\ otpFlight' = SubSeq(otpFlight, 1, f - 1) \o SubSeq(otpFlight, f + 1, Len(otpFlight))
       /\ Only("otp")

SpecOtp ==
    InitOtp /\ [][LoginDeletes \/ LoginCreates \/ OtpExpires \/ VerifyFinds \/ VerifySaves]_vars

\* C26: an issued LOGIN OTP gives at most one successful verifyLoginOTP
\* response, however the verification requests that carry its code
\* interleave; and a verification that starts after one has succeeded with
\* the code finds nothing and answers 400.
OneLoginPerOtp ==
    /\ [](\A d \in DOMAIN otps :
             Cardinality({r \in DOMAIN otpRes :
                             /\ otpRes[r].kind = "verify" /\ otpRes[r].status = 200
                             /\ otpRes[r].doc = d}) <= 1)
    /\ [][\A f \in DOMAIN otpFlight' :
             (f \notin DOMAIN otpFlight /\ otpFlight'[f].kind = "verify") =>
                ~\E r \in DOMAIN otpRes :
                     /\ otpRes[r].kind = "verify" /\ otpRes[r].status = 200
                     /\ otpRes[r].doc = otpFlight'[f].doc]_vars

====
